---------------------------- MODULE Spec2Model ----------------------------
(***************************************************************************)
(* Ladybug "Outdoor Solar Temperature Adjustor": the input validation      *)
(* (checkTheInputs and the module top level) and the two per-hour engines  *)
(* (main: high-resolution sky-patch sum; mainSimple: low-resolution        *)
(* projected-area-factor formula), each run sequentially or with           *)
(* Parallel.ForEach followed by the sort on hourOrder.                     *)
(*                                                                         *)
(* Numbers are exact rationals <<n, d>> (d > 0, lowest terms): the model   *)
(* checks the arithmetic the code writes, not its floating-point rounding. *)
(* The year has YearHours hours instead of 8760.                           *)
(***************************************************************************)
EXTENDS Integers, Sequences, FiniteSets

VARIABLES
    inp,               \* the arguments main / mainSimple are called with
    pc,                \* position of main / mainSimple: "idle", "start", "dispatch", "done"
    radTemp,           \* main's local radTemp (sliced to the period)
    altitudes,         \* solar altitude per index of HOYS (degrees)
    finalWinTransmiss, \* main: window transmissivity per index of HOYS
    skyViewFac,        \* mainSimple: the sky view factor
    intDict,           \* main: the intersection matrix runAnalyses returned
    ERF, MRTDelta, solarAdjustedMRT, hourOrder,   \* the shared result lists
    seqCount,          \* sequential loop: next index of enumerate(HOYS)
    nextIdx,           \* Parallel.ForEach: next index not yet handed to a thread
    thr,               \* per thread: the index it works on (-1: idle) and appends done
    raw,               \* the component inputs as read by checkTheInputs
    chk,               \* checkTheInputs: its flags and results so far
    vpc,               \* position in checkTheInputs / the top level
    invoked            \* which engine the top level called: "none", "main", "mainSimple"

vars == <<inp, pc, radTemp, altitudes, finalWinTransmiss, skyViewFac, intDict, ERF, MRTDelta,
          solarAdjustedMRT, hourOrder, seqCount, nextIdx, thr, raw, chk, vpc, invoked>>

runVars == <<inp, pc, radTemp, altitudes, finalWinTransmiss, skyViewFac, intDict, ERF, MRTDelta,
             solarAdjustedMRT, hourOrder, seqCount, nextIdx, thr>>

chkVars == <<raw, chk, vpc, invoked>>

---------------------------------------------------------------------------
(* Bounds of the model *)

YearHours == 3      \* hours in the model year (8760 in the program)
NThreads == 2       \* worker threads Parallel.ForEach runs at once
NPatches == 2       \* sky patches other than patch 0 (145 or 577 in the program)
NBodyPts == 2       \* test points of the mannequin mesh (the ground point follows them)

---------------------------------------------------------------------------
(* Exact rational arithmetic *)

RECURSIVE Gcd(_, _)
Gcd(a, b) == IF b = 0 THEN a ELSE Gcd(b, a % b)

Abs(a) == IF a < 0 THEN -a ELSE a

RNorm(n, d) ==
    LET g == Gcd(Abs(n), Abs(d))
        s == IF d < 0 THEN -1 ELSE 1
    IN  <<(s * n) \div g, (s * d) \div g>>

R(n) == <<n, 1>>
RZero == <<0, 1>>
ROne == <<1, 1>>

RAdd(x, y) ==
    LET g == Gcd(x[2], y[2])
    IN  RNorm(x[1] * (y[2] \div g) + y[1] * (x[2] \div g), (x[2] \div g) * y[2])

RNeg(x) == <<-x[1], x[2]>>
RSub(x, y) == RAdd(x, RNeg(y))

RLt(x, y) == RSub(x, y)[1] < 0
RLeq(x, y) == RSub(x, y)[1] <= 0

RMul(x, y) ==
    LET a == RNorm(x[1], y[2])
        b == RNorm(y[1], x[2])
    IN  <<a[1] * b[1], a[2] * b[2]>>

RDiv(x, y) == RMul(x, RNorm(y[2], y[1]))

RPos(x) == x[1] > 0
RNonNeg(x) == x[1] >= 0

RECURSIVE RSumTo(_, _)
\* sum of f[1] .. f[n]
RSumTo(f, n) == IF n = 0 THEN RZero ELSE RAdd(RSumTo(f, n - 1), f[n])

RSum(s) == RSumTo(s, Len(s))

\* Python's seq[i] for i >= -len(seq): a negative index counts from the end
PyIdx(s, i) == IF i < 0 THEN s[Len(s) + i + 1] ELSE s[i + 1]

\* Python's None as the value of an unset bodyPosture_
NoneVal == -2

---------------------------------------------------------------------------
(* Constants of the engines *)

\* fracEff: the fraction of the body visible to radiation, by posture
fracEff ==
    IF inp.bodyPosture_ = 0 \/ inp.bodyPosture_ = 3 THEN <<29, 40>>
    ELSE IF inp.bodyPosture_ = 1 \/ inp.bodyPosture_ = 4 \/ inp.bodyPosture_ = NoneVal
         THEN <<87, 125>>
    ELSE <<17, 25>>

radTransCoeff == <<1503, 250>>          \* 6.012
Half == <<1, 2>>                        \* the 0.5 of the ground-reflected / sky terms
AbsorbRef == <<19, 20>>                 \* the 0.95 the absorptivity is divided by
SimplePersonArea == <<71, 40>>          \* 1.775, the body area of a low-res mannequin

HOYS == inp.HOYS
NHours == Len(HOYS)

\* sine of a solar altitude given in degrees (the altitudes the model uses)
Sin(deg) ==
    CASE deg = 90 -> ROne
      [] deg = 30 -> Half
      [] deg = 0 -> RZero
      [] deg = -30 -> <<-1, 2>>

---------------------------------------------------------------------------
(* The intersection matrix (ladybug_RunAnalysis.parallel_radCalculator):   *)
(* per test point and sky patch, whether the patch is seen and the cosine  *)
(* of the angle between the patch direction and the point's normal.        *)

Points == 0 .. NBodyPts                 \* the last one is the ground point
Patches == 0 .. NPatches - 1

\* dot(normal, patchDirection) of the model's fixed geometry: -1/2, 0, 1/2 or 1
Dot(pt, patch) == RNorm(((pt + patch) % 4) - 1, 2)

\* cosineFactor = max(0, dot(normal, patchDirection))
CosFactor(pt, patch) == IF RPos(Dot(pt, patch)) THEN Dot(pt, patch) ELSE RZero

\* unobstructed = (no intersection found)
BuildIntersectionMtx(blocked) ==
    [pt \in Points |->
        [patch \in Patches |->
            [isIntersect |-> <<pt, patch>> \notin blocked,
             cosAngle |-> CosFactor(pt, patch)]]]

\* meshSrfAreas of the test points, the ground's last; conversionFac is 1
MeshSrfArea(pt) == RNorm(pt + 1, 2)

personMeshAreas == [i \in 1 .. NBodyPts |-> MeshSrfArea(i - 1)]

totalPersonArea ==
    IF inp.method = 0 THEN RSum(personMeshAreas) ELSE SimplePersonArea

---------------------------------------------------------------------------
(* main: one hour of the high-resolution method (radCalc and the body of   *)
(* nonParallelRadCalc's loop); count is the 0-based index into HOYS.       *)

\* the test that decides whether the flux model runs for index count
main_sunUp(count) ==
    LET lastVal == IF count # NHours - 1 THEN 1 ELSE 0
    IN  \/ PyIdx(altitudes, count) > 0
        \/ PyIdx(altitudes, count - 1) > 0
        \/ PyIdx(altitudes, count + lastVal) > 0

\* the hour's total radiation per sky patch (getHourlySky, prepareLBList)
skyMatrix(count) == inp.sky[HOYS[count + 1]]

RECURSIVE radValueUpTo(_, _, _)
radValueUpTo(count, pt, n) ==
    IF n = 0 THEN RZero
    ELSE LET e == intDict[pt][n - 1]
             rest == radValueUpTo(count, pt, n - 1)
         IN  IF e.isIntersect
             THEN RAdd(rest, RMul(skyMatrix(count)[n], e.cosAngle))
             ELSE rest

\* radiationResult[pt]
radValue(count, pt) == radValueUpTo(count, pt, NPatches)

groundRad0(count) == radValue(count, NBodyPts)

totalPersonBeamDiffRad0(count) ==
    RSum([i \in 1 .. NBodyPts |-> RMul(radValue(count, i - 1), personMeshAreas[i])])

\* "Account for the transmissivity of glass"
groundRad(count) ==
    IF finalWinTransmiss[count + 1] # ROne
    THEN RMul(groundRad0(count), finalWinTransmiss[count + 1])
    ELSE groundRad0(count)

totalPersonBeamDiffRad(count) ==
    IF finalWinTransmiss[count + 1] # ROne
    THEN RMul(totalPersonBeamDiffRad0(count), finalWinTransmiss[count + 1])
    ELSE totalPersonBeamDiffRad0(count)

groundRefRad(count) == RMul(RMul(RMul(Half, groundRad(count)), fracEff), inp.groundR)

\* a total that takes the ground-reflected part off
totalPersonRadLessGround(count) ==
    RSub(totalPersonBeamDiffRad(count), groundRefRad(count))

totalPersonRad(count) == RAdd(totalPersonBeamDiffRad(count), groundRefRad(count))

radiantFlux(count) == RDiv(totalPersonRad(count), totalPersonArea)

main_hourERF(count) == RDiv(RMul(radiantFlux(count), inp.cloA), AbsorbRef)

main_hourMRT(count) ==
    RAdd(RDiv(main_hourERF(count), RMul(fracEff, radTransCoeff)), radTemp[count + 1])

main_mrtDelt(count) == RSub(main_hourMRT(count), radTemp[count + 1])

\* what the hour appends, and the order of its three appends
main_hour(count) ==
    IF main_sunUp(count)
    THEN [erf |-> RDiv(main_hourERF(count), R(1000)),
          mrt |-> main_hourMRT(count),
          delta |-> main_mrtDelt(count),
          order |-> <<"ERF", "MRT", "Delta">>]
    ELSE [erf |-> RZero, mrt |-> radTemp[count + 1], delta |-> RZero,
          order |-> <<"ERF", "MRT", "Delta">>]

---------------------------------------------------------------------------
(* mainSimple: one hour of the low-resolution method (MRTCalc and the body *)
(* of nonParallelMRTCalc's loop).                                          *)

\* Python 2 "/" on two non-negative ints
PyIntDiv(a, b) == a \div b

\* len(mannequinMesh): 9 points, or 3 for the low-res postures
MannequinPts ==
    IF inp.bodyPosture_ \in {0, 1, 2, NoneVal} THEN 9 ELSE 3

\* sum(fBesList)/len(fBesList), or 1 without context
fBes(count) ==
    IF inp.context.present
    THEN PyIntDiv(inp.context.sunFree[HOYS[count + 1]], MannequinPts)
    ELSE 1

\* one subtraction in place of the while loop
FoldDownOnce(a) == a - 180

RECURSIVE FoldDown(_)
FoldDown(a) == IF a > 180 THEN FoldDown(a - 180) ELSE a

RECURSIVE FoldUp(_)
FoldUp(a) == IF a < 0 THEN FoldUp(a + 180) ELSE a

azInit(count) ==
    LET a0 == inp.az[HOYS[count + 1]]
        a1 == IF inp.northAngle # 0 THEN a0 + inp.northAngle ELSE a0
    IN  IF inp.rotationAngle # 0 THEN a1 + inp.rotationAngle ELSE a1

azFinal(count) ==
    IF azInit(count) > 180 THEN FoldDown(azInit(count))
    ELSE IF azInit(count) < 0 THEN FoldUp(azInit(count))
    ELSE azInit(count)

altFinal(count) ==
    LET altInit == altitudes[count + 1]
    IN  IF altInit > 90 THEN altInit - 90 ELSE altInit

\* the projected area factor splines of ladybug_ComfortModels
splineStand(az, alt) == RNorm(35 - (alt \div 3) - (az \div 45), 100)
splineSit(az, alt) == RNorm(30 - (alt \div 5) - (az \div 60), 100)

ProjAreaFac(count) ==
    IF inp.bodyPosture_ = 0 \/ inp.bodyPosture_ = 3
    THEN splineStand(azFinal(count), altFinal(count))
    ELSE IF inp.bodyPosture_ = 1 \/ inp.bodyPosture_ = 4 \/ inp.bodyPosture_ = NoneVal
         THEN splineSit(azFinal(count), altFinal(count))
    ELSE splineStand(azFinal(count), 90 - altFinal(count))

diffRad(count) == inp.diffSolarRad[HOYS[count + 1]]
dirNormRad(count) == inp.directSolarRad[HOYS[count + 1]]

globHorizRad(count) ==
    RAdd(RMul(dirNormRad(count), Sin(altitudes[count + 1])), diffRad(count))

simple_hourERF(count) ==
    LET skyPart == RMul(RMul(RMul(Half, fracEff), R(skyViewFac)),
                        RAdd(diffRad(count), RMul(globHorizRad(count), inp.groundR)))
        sunPart == RMul(RMul(RMul(fracEff, ProjAreaFac(count)), R(fBes(count))),
                        dirNormRad(count))
    IN  RMul(RMul(RAdd(skyPart, sunPart), inp.winTrans[HOYS[count + 1]]),
             RDiv(inp.cloA, AbsorbRef))

simple_mrtDelt(count) == RDiv(simple_hourERF(count), RMul(fracEff, radTransCoeff))

simple_hourMRT(count) == RAdd(simple_mrtDelt(count), radTemp[count + 1])

simple_hour(count) ==
    IF altitudes[count + 1] > 0 /\ fBes(count) > 0
    THEN [erf |-> simple_hourERF(count),
          mrt |-> simple_hourMRT(count),
          delta |-> simple_mrtDelt(count),
          order |-> <<"ERF", "Delta", "MRT">>]
    ELSE [erf |-> RZero, mrt |-> radTemp[count + 1], delta |-> RZero,
          order |-> <<"ERF", "MRT", "Delta">>]

\* whether the hour casts sun rays from the mannequin points to the context
simple_castsSunRays(count) == altitudes[count + 1] > 0 /\ inp.context.present

\* whether the hour looks up the projected area factor
simple_looksUpProjArea(count) == altitudes[count + 1] > 0 /\ fBes(count) > 0

\* the hour's result in the engine the run uses
hourResult(count) == IF inp.method = 2 THEN simple_hour(count) ELSE main_hour(count)


---------------------------------------------------------------------------
(* The component's inputs.  A series has one entry per hour of the model   *)
(* year; NaV stands for a value that is no number (None, or an item float()*)
(* rejects).                                                               *)

NaV == <<0, 0>>
IsNumber(x) == x[2] # 0

Year == 1 .. YearHours

RECURSIVE AscSeqs(_)
\* the ascending sequences of hours drawn from 1 .. n
AscSeqs(n) ==
    IF n = 0 THEN {<<>>}
    ELSE AscSeqs(n - 1) \cup {Append(s, n) : s \in AscSeqs(n - 1)}

Periods == AscSeqs(YearHours) \ {<<>>}

FullYear == [h \in Year |-> h]

\* _meanRadTemperature
RadTempSeries == [h \in Year |-> R(h)]
MrtList(items) == [epw |-> FALSE, items |-> items]
MrtYear == MrtList(RadTempSeries)
MrtInputs ==
    {MrtYear, MrtList(<<>>), MrtList(<<R(5)>>), MrtList(<<NaV>>),
     MrtList(<<R(5), R(6)>>), [epw |-> TRUE, items |-> RadTempSeries],
     MrtList(Append(RadTempSeries, R(5))), MrtList(<<NaV, R(5)>>),
     MrtList(<<R(5), NaV>>)}

\* windowTransmissivity_
WinTransAllOne == [h \in Year |-> ROne]
WinTransAllZero == [h \in Year |-> RZero]
WinTransHourly == [h \in Year |-> RNorm(h % 3, 2)]
WinTransSeries == {WinTransAllOne, WinTransAllZero, WinTransHourly}
WinInputs ==
    WinTransSeries \cup
    {<<>>, <<RZero>>, <<Half>>, <<ROne>>, <<<<3, 2>>>>, <<<<-1, 2>>>>, <<Half, Half>>,
     [h \in Year |-> IF h = 1 THEN <<3, 2>> ELSE Half],
     [h \in Year |-> IF h = YearHours THEN NaV ELSE Half]}

\* groundReflectivity_ and clothingAbsorptivity_ (NaV: not connected)
FractionInputs == {NaV, RZero, <<1, 4>>, Half, <<7, 10>>, ROne, <<3, 2>>, <<-1, 2>>}
Reflectances == {<<NaV, NaV>>, <<Half, Half>>}

\* analysisPeriodOrHOY_: not connected, an hour of the year, or an analysis
\* period (hoys: the hours getHOYsBasedOnPeriod gives for it)
PeriodAbsent == [kind |-> "absent", hoy |-> 0, hoys |-> FullYear]
PeriodHOY(h) == [kind |-> "hoy", hoy |-> h, hoys |-> <<h>>]
PeriodRange(hoys) == [kind |-> "period", hoy |-> 0, hoys |-> hoys]
PeriodInputs ==
    {PeriodAbsent} \cup {PeriodHOY(h) : h \in 0 .. YearHours + 1}
        \cup {PeriodRange(hoys) : hoys \in Periods}

\* the sun and the sky of the location: solar altitude per hour (degrees)
AltSeries == [Year -> {-30, 30}] \cup {[h \in Year |-> 0]}
AltDayFirst == [h \in Year |-> IF h = 1 THEN 30 ELSE -30]
AltAllDay == [h \in Year |-> 30]
AltAllNight == [h \in Year |-> -30]
AzSeries == [h \in Year |-> 60 + 70 * h]
AzEdges == [h \in Year |-> IF h = 1 THEN 0 ELSE IF h = 2 THEN 180 ELSE 359]
AltZenith == [h \in Year |-> IF h = 1 THEN 90 ELSE 30]

\* radiation level of an hour: 0 none, 1 diffuse only, 2 direct and diffuse
LevelAll(l) == [h \in Year |-> l]
LevelOnlyAt(h0) == [h \in Year |-> IF h = h0 THEN 2 ELSE 0]
LevelSeries == {LevelAll(0), LevelAll(1), LevelAll(2), LevelOnlyAt(2)}

SkyOf(level) ==
    [h \in Year |-> [p \in 1 .. NPatches |->
        IF level[h] = 0 THEN RZero ELSE IF level[h] = 1 THEN R(5) ELSE R(10 * p)]]
DirectOf(level) == [h \in Year |-> IF level[h] = 2 THEN R(30) ELSE RZero]
DiffuseOf(level) == [h \in Year |-> IF level[h] = 0 THEN RZero ELSE R(10)]

\* contextShading_, by what it blocks: sky patches seen from the test points
\* (main), view vectors from the middle point and sun rays from the mannequin
\* points at each hour (mainSimple)
PtsOf(posture) == IF posture \in {0, 1, 2, NoneVal} THEN 9 ELSE 3

NoContext(n) ==
    [present |-> FALSE, blocked |-> {}, viewBlocked |-> 0,
     sunFree |-> [h \in Year |-> n]]
PartialContext(n) ==
    [present |-> TRUE, blocked |-> {<<1, 1>>}, viewBlocked |-> 1,
     sunFree |-> [h \in Year |-> IF h = 1 THEN n - 1 ELSE n]]
FullContext(n) ==
    [present |-> TRUE, blocked |-> Points \X Patches, viewBlocked |-> 145,
     sunFree |-> [h \in Year |-> 0]]
Contexts(posture) ==
    {NoContext(PtsOf(posture)), PartialContext(PtsOf(posture)), FullContext(PtsOf(posture))}

RadKinds == {"empty", "null", "sky", "dirNorm", "wrongData", "junk"}
DiffuseKinds == {"empty", "null", "diffuse", "wrongData", "junk"}
Postures == {NoneVal} \cup (0 .. 6)

Inputs(release, mrt, rad, diff, posture, gr, clo, win, period, loc, par, run, alt, level, ctx) ==
    [release |-> release, meanRadTemperature |-> mrt, radInput |-> rad,
     diffuseHorizRad |-> diff, bodyPosture_ |-> posture, groundReflectivity_ |-> gr,
     clothingAbsorptivity_ |-> clo, windowTransmissivity_ |-> win,
     analysisPeriodOrHOY_ |-> period, location |-> loc, parallel_ |-> par,
     runIt |-> run, alt |-> alt, level |-> level, context |-> ctx,
     skyPatches |-> 145, north_ |-> NoneVal, rotationAngle_ |-> NoneVal,
     az |-> AzSeries]

\* a run with every input valid; rad picks the method
ValidInputs(rad, posture, period, win, gc, alt, level, ctx, par) ==
    Inputs("ok", MrtYear, rad, "diffuse", posture, gc[1], gc[2], win, period, "valid",
           par, TRUE, alt, level, ctx)

\* every combination of a valid and an invalid value of the nine checked inputs
ValidOrInvalid ==
    { Inputs("ok", mrt, rad, diff, posture, gr, clo, win, period, loc, "False", run,
             AltDayFirst, LevelAll(2), NoContext(PtsOf(posture))) :
        mrt \in {MrtYear, MrtList(<<>>)}, rad \in {"sky", "dirNorm", "junk"},
        diff \in {"diffuse", "empty"}, posture \in {NoneVal, 6},
        gr \in {NaV, ROne}, clo \in {Half, RZero}, win \in {<<>>, <<<<3, 2>>>>},
        period \in {PeriodAbsent, PeriodHOY(0)}, loc \in {"valid", "none"},
        run \in BOOLEAN }

EachInput(rad) ==
    LET V(release, mrt, rd, diff, posture, gr, clo, win, period, loc, par) ==
            Inputs(release, mrt, rd, diff, posture, gr, clo, win, period, loc, par, TRUE,
                   AltDayFirst, LevelAll(2), NoContext(PtsOf(posture)))
        B(release, mrt, rd, diff, posture, gr, clo, win, period, loc) ==
            V(release, mrt, rd, diff, posture, gr, clo, win, period, loc, "False")
    IN  {B(x, MrtYear, rad, "diffuse", 1, NaV, NaV, <<>>, PeriodAbsent, "valid") :
            x \in {"missing", "incompatible"}}
        \cup {B("ok", x, rad, "diffuse", 1, NaV, NaV, <<>>, PeriodAbsent, "valid") :
                x \in MrtInputs}
        \cup {B("ok", MrtYear, x, "diffuse", 1, NaV, NaV, <<>>, PeriodAbsent, "valid") :
                x \in RadKinds}
        \cup {B("ok", MrtYear, rad, x, 1, NaV, NaV, <<>>, PeriodAbsent, "valid") :
                x \in DiffuseKinds}
        \cup {B("ok", MrtYear, rad, "diffuse", x, NaV, NaV, <<>>, PeriodAbsent, "valid") :
                x \in Postures}
        \cup {B("ok", MrtYear, rad, "diffuse", 1, x, NaV, <<>>, PeriodAbsent, "valid") :
                x \in FractionInputs}
        \cup {B("ok", MrtYear, rad, "diffuse", 1, NaV, x, <<>>, PeriodAbsent, "valid") :
                x \in FractionInputs}
        \cup {B("ok", MrtYear, rad, "diffuse", 1, NaV, NaV, x, PeriodAbsent, "valid") :
                x \in WinInputs}
        \cup {B("ok", MrtYear, rad, "diffuse", 1, NaV, NaV, <<>>, x, "valid") :
                x \in PeriodInputs}
        \cup {B("ok", MrtYear, rad, "diffuse", 1, NaV, NaV, <<>>, PeriodAbsent, x) :
                x \in {"none", "valid", "malformed"}}
        \cup {V("ok", MrtYear, rad, "diffuse", 1, NaV, NaV, <<>>, PeriodRange(<<1, 2>>),
                 "valid", x) :
                x \in {"None", "True", "False"}}

\* the radiation input and posture of each method (0 and 1: main, 2: mainSimple)
MethodPostures ==
    {<<"sky", 0>>, <<"sky", NoneVal>>, <<"sky", 5>>, <<"dirNorm", 2>>, <<"dirNorm", 4>>}

\* every period and every day/night pattern of the year
PeriodRuns ==
    { ValidInputs(mp[1], mp[2], period, WinTransHourly, <<NaV, NaV>>, alt, level,
                  NoContext(PtsOf(mp[2])), "False") :
        mp \in MethodPostures,
        period \in {PeriodAbsent} \cup {PeriodHOY(h) : h \in Year}
                      \cup {PeriodRange(hoys) : hoys \in Periods},
        alt \in AltSeries, level \in {LevelAll(2), LevelOnlyAt(2)} }

\* every radiation, transmissivity, reflectance and context over the whole year
ValueRuns ==
    UNION { { ValidInputs(mp[1], mp[2], PeriodAbsent, win, gc, alt, level, ctx, "False") :
                alt \in {AltDayFirst, AltAllDay}, win \in WinTransSeries,
                level \in LevelSeries, gc \in Reflectances, ctx \in Contexts(mp[2]) } :
            mp \in MethodPostures }

\* runs with parallel_ set to True: two hours of the year, and the whole year
ParallelRuns ==
    { ValidInputs(mp[1], mp[2], period, WinTransHourly, <<NaV, NaV>>, alt, LevelAll(2),
                  NoContext(PtsOf(mp[2])), "True") :
        mp \in {<<"sky", 0>>, <<"sky", 5>>, <<"dirNorm", 2>>},
        period \in {PeriodRange(<<1, 2>>), PeriodRange(<<2, 3>>)},
        alt \in {AltDayFirst, AltAllNight} }
    \cup { ValidInputs("sky", 0, PeriodAbsent, WinTransHourly, <<NaV, NaV>>, AltDayFirst,
                       LevelAll(2), NoContext(PtsOf(0)), "True") }

\* the number of sky patches other than the ground patch in cumSkyMtx.d:
\* none, the Tregenza sky, one patch too many, the Reinhart sky
SkyPatchCounts == {0, 145, 146, 577}

\* valid runs over the sizes of the sky matrix
SkyRuns ==
    { [ValidInputs("sky", 0, period, WinTransAllOne, <<NaV, NaV>>, AltDayFirst,
                   LevelAll(2), NoContext(PtsOf(0)), par) EXCEPT !.skyPatches = n] :
        period \in {PeriodAbsent, PeriodHOY(1)}, par \in {"False", "True"},
        n \in SkyPatchCounts }

\* north_ and rotationAngle_ in degrees (NoneVal when not connected)
NorthAngles == {NoneVal, -90}
RotationAngles == {NoneVal, -400, -180, 181, 725}

\* valid runs of mainSimple over the angles of the sun and of the mannequin
AngleRuns ==
    { [ValidInputs("dirNorm", posture, PeriodAbsent, WinTransAllOne, <<NaV, NaV>>, alt,
                   LevelAll(2), NoContext(PtsOf(posture)), "False")
          EXCEPT !.north_ = north, !.rotationAngle_ = rot, !.az = az] :
        posture \in {2, 4}, alt \in {AltAllDay, AltZenith}, az \in {AzSeries, AzEdges},
        north \in NorthAngles, rot \in RotationAngles }

InputSets ==
    ValidOrInvalid \cup EachInput("sky") \cup EachInput("dirNorm")
        \cup PeriodRuns \cup ValueRuns \cup ParallelRuns \cup SkyRuns \cup AngleRuns

---------------------------------------------------------------------------
(* checkTheInputs, check by check *)

NoCheck ==
    [checkData1 |-> FALSE, checkData2 |-> FALSE, checkData3 |-> TRUE, checkData4 |-> TRUE,
     checkData5 |-> TRUE, checkData6 |-> TRUE, checkData7 |-> TRUE, checkData8 |-> TRUE,
     checkData9 |-> TRUE, checkData |-> FALSE, results |-> "none",
     checkInputOutput |-> FALSE, methodInit |-> 0, radTemp |-> <<>>, bodyPosture |-> NoneVal,
     groundR |-> NaV, cloA |-> NaV, winTrans |-> <<>>, parallel |-> TRUE,
     periodMethod |-> 0, directSolarRad |-> <<>>, diffSolarRad |-> <<>>,
     reported |-> {}]

NoArgs ==
    [method |-> 0, bodyPosture_ |-> NoneVal, parallel |-> FALSE, HOYS |-> <<>>,
     periodMethod |-> 0, defaultPeriod |-> TRUE, radTemp |-> <<>>, winTrans |-> <<>>,
     alt |-> <<>>, az |-> <<>>, northAngle |-> 0, rotationAngle |-> 0, sky |-> <<>>,
     directSolarRad |-> <<>>, diffSolarRad |-> <<>>, groundR |-> NaV, cloA |-> NaV,
     context |-> NoContext(0), skyPatches |-> 0]

Threads == 1 .. NThreads
NoResult == [erf |-> RZero, mrt |-> RZero, delta |-> RZero, order |-> <<>>]
Idle == [idx |-> -1, step |-> 0, r |-> NoResult]

Init ==
    /\ raw \in InputSets
    /\ chk = NoCheck
    /\ vpc = "release"
    /\ invoked = "none"
    /\ inp = NoArgs
    /\ pc = "idle"
    /\ radTemp = <<>>
    /\ altitudes = <<>>
    /\ finalWinTransmiss = <<>>
    /\ skyViewFac = 1
    /\ intDict = <<>>
    /\ ERF = <<>>
    /\ MRTDelta = <<>>
    /\ solarAdjustedMRT = <<>>
    /\ hourOrder = <<>>
    /\ seqCount = 0
    /\ nextIdx = 0
    /\ thr = [t \in Threads |-> Idle]

\* the import of the Ladybug classes: without a compatible release the function
\* returns -1 at once
CheckRelease ==
    /\ vpc = "release"
    /\ IF raw.release = "ok"
       THEN vpc' = "mrt" /\ chk' = chk
       ELSE /\ vpc' = "returned"
            /\ chk' = [chk EXCEPT !.results = "minus1",
                                  !.reported = IF raw.release = "incompatible"
                                               THEN {"release"} ELSE {}]
    /\ UNCHANGED <<raw, invoked>>
    /\ UNCHANGED runVars

\* the float() loop over _meanRadTemperature: the numbers it collected, and
\* whether the last item was a number
MrtValues(m) == IF m.epw THEN m.items ELSE SelectSeq(m.items, IsNumber)
MrtLoopFlag(m) ==
    IF m.epw THEN TRUE ELSE Len(m.items) > 0 /\ IsNumber(m.items[Len(m.items)])

\* "If there is only one value for MRT, duplicate it 8760 times."
MrtChecked(m) ==
    LET vals == MrtValues(m)
        flag == MrtLoopFlag(m)
    IN  IF Len(vals) < YearHours /\ Len(vals) # 0
        THEN IF Len(vals) = 1
             THEN [ok |-> flag, radTemp |-> [h \in Year |-> vals[1]]]
             ELSE [ok |-> FALSE, radTemp |-> vals]
        ELSE [ok |-> flag, radTemp |-> vals]

CheckMeanRadTemperature ==
    /\ vpc = "mrt"
    /\ LET c == MrtChecked(raw.meanRadTemperature)
       IN  chk' = [chk EXCEPT !.checkData1 = c.ok, !.radTemp = c.radTemp,
                              !.reported = IF c.ok THEN @ ELSE @ \cup {"meanRadTemperature"}]
    /\ vpc' = "rad"
    /\ UNCHANGED <<raw, invoked>>
    /\ UNCHANGED runVars

\* _cumSkyMtxOrDirNormRad sets the method: a sky matrix (0), or the direct normal
\* radiation of an epw file (2)
RadChecked(kind) ==
    CASE kind = "sky" -> [ok |-> TRUE, methodInit |-> 0, said |-> FALSE]
      [] kind = "dirNorm" -> [ok |-> TRUE, methodInit |-> 2, said |-> FALSE]
      [] kind = "empty" -> [ok |-> FALSE, methodInit |-> 0, said |-> FALSE]
      [] OTHER -> [ok |-> FALSE, methodInit |-> 0, said |-> TRUE]

CheckRadiationInput ==
    /\ vpc = "rad"
    /\ LET c == RadChecked(raw.radInput)
       IN  chk' = [chk EXCEPT !.checkData2 = c.ok, !.methodInit = c.methodInit,
                              !.directSolarRad =
                                  IF c.methodInit = 2 THEN DirectOf(raw.level) ELSE <<>>,
                              !.reported = IF c.said THEN @ \cup {"radInput"} ELSE @]
    /\ vpc' = "diffuse"
    /\ UNCHANGED <<raw, invoked>>
    /\ UNCHANGED runVars

\* _diffuseHorizRad is looked at only for method 2
DiffuseChecked(methodInit, kind) ==
    IF methodInit # 2 THEN [ok |-> TRUE, said |-> FALSE]
    ELSE CASE kind = "diffuse" -> [ok |-> TRUE, said |-> FALSE]
           [] kind = "empty" -> [ok |-> FALSE, said |-> FALSE]
           [] OTHER -> [ok |-> FALSE, said |-> TRUE]

CheckDiffuse ==
    /\ vpc = "diffuse"
    /\ LET c == DiffuseChecked(chk.methodInit, raw.diffuseHorizRad)
       IN  chk' = [chk EXCEPT !.checkData8 = c.ok,
                              !.diffSolarRad =
                                  IF chk.methodInit = 2 /\ c.ok
                                  THEN DiffuseOf(raw.level) ELSE <<>>,
                              !.reported = IF c.said THEN @ \cup {"diffuseHorizRad"} ELSE @]
    /\ vpc' = "posture"
    /\ UNCHANGED <<raw, invoked>>
    /\ UNCHANGED runVars

\* bodyPosture_ is checked only when the method is still 0
PostureChecked(methodInit, posture) ==
    IF methodInit = 0
    THEN IF posture \in {0, 1, 2}
         THEN [ok |-> TRUE, methodInit |-> 0, bodyPosture |-> posture]
         ELSE IF posture \in {3, 4, 5}
         THEN [ok |-> TRUE, methodInit |-> 1, bodyPosture |-> posture]
         ELSE IF posture = NoneVal
         THEN [ok |-> TRUE, methodInit |-> 0, bodyPosture |-> 1]
         ELSE [ok |-> FALSE, methodInit |-> 0, bodyPosture |-> NoneVal]
    ELSE [ok |-> TRUE, methodInit |-> methodInit, bodyPosture |-> -1]

CheckBodyPosture ==
    /\ vpc = "posture"
    /\ LET c == PostureChecked(chk.methodInit, raw.bodyPosture_)
       IN  chk' = [chk EXCEPT !.checkData3 = c.ok, !.methodInit = c.methodInit,
                              !.bodyPosture = c.bodyPosture,
                              !.reported = IF c.ok THEN @ ELSE @ \cup {"bodyPosture_"}]
    /\ vpc' = "ground"
    /\ UNCHANGED <<raw, invoked>>
    /\ UNCHANGED runVars

\* a check that lets the ends of the interval through
GroundReflectivityClosed(g) ==
    IF g # NaV
    THEN IF RLeq(g, ROne) /\ RLeq(RZero, g)
         THEN [ok |-> TRUE, val |-> g]
         ELSE [ok |-> FALSE, val |-> NaV]
    ELSE [ok |-> TRUE, val |-> <<1, 4>>]

\* "groundReflectivity_ < 1 and groundReflectivity_ > 0", 0.25 when not connected
GroundReflectivityChecked(g) ==
    IF g # NaV
    THEN IF RLt(g, ROne) /\ RLt(RZero, g)
         THEN [ok |-> TRUE, val |-> g]
         ELSE [ok |-> FALSE, val |-> NaV]
    ELSE [ok |-> TRUE, val |-> <<1, 4>>]

CheckGroundReflectivity ==
    /\ vpc = "ground"
    /\ LET c == GroundReflectivityChecked(raw.groundReflectivity_)
       IN  chk' = [chk EXCEPT !.checkData4 = c.ok, !.groundR = c.val,
                              !.reported = IF c.ok THEN @ ELSE @ \cup {"groundReflectivity_"}]
    /\ vpc' = "clothing"
    /\ UNCHANGED <<raw, invoked>>
    /\ UNCHANGED runVars

\* "clothingAbsorptivity_ < 1 and clothingAbsorptivity_ > 0", 0.7 when not connected
ClothingAbsorptivityChecked(a) ==
    IF a # NaV
    THEN IF RLt(a, ROne) /\ RLt(RZero, a)
         THEN [ok |-> TRUE, val |-> a]
         ELSE [ok |-> FALSE, val |-> NaV]
    ELSE [ok |-> TRUE, val |-> <<7, 10>>]

CheckClothingAbsorptivity ==
    /\ vpc = "clothing"
    /\ LET c == ClothingAbsorptivityChecked(raw.clothingAbsorptivity_)
       IN  chk' = [chk EXCEPT !.checkData5 = c.ok, !.cloA = c.val,
                              !.reported = IF c.ok THEN @ ELSE @ \cup {"clothingAbsorptivity_"}]
    /\ vpc' = "window"
    /\ UNCHANGED <<raw, invoked>>
    /\ UNCHANGED runVars

\* a test that leaves out the ends of the interval
InOpenUnit(x) == RLt(x, ROne) /\ RLt(RZero, x)

InUnit(x) == RLeq(x, ROne) /\ RLeq(RZero, x)

\* windowTransmissivity_: a list of 8760 values, one value, or nothing (1 for
\* every hour); float() of an item that is no number raises
WindowTransmissivityChecked(w) ==
    IF w # <<>>
    THEN IF Len(w) = YearHours
         THEN IF \E i \in 1 .. Len(w) : ~IsNumber(w[i])
              THEN [raised |-> TRUE, ok |-> TRUE, winTrans |-> <<>>]
              ELSE [raised |-> FALSE,
                    ok |-> \A i \in 1 .. Len(w) : InUnit(w[i]),
                    winTrans |-> SelectSeq(w, InUnit)]
         ELSE IF Len(w) = 1
         THEN IF IsNumber(w[1]) /\ InUnit(w[1])
              THEN [raised |-> FALSE, ok |-> TRUE, winTrans |-> [h \in Year |-> w[1]]]
              ELSE [raised |-> FALSE, ok |-> FALSE, winTrans |-> <<>>]
         ELSE [raised |-> FALSE, ok |-> FALSE, winTrans |-> <<>>]
    ELSE [raised |-> FALSE, ok |-> TRUE, winTrans |-> [h \in Year |-> ROne]]

CheckWindowTransmissivity ==
    /\ vpc = "window"
    /\ LET c == WindowTransmissivityChecked(raw.windowTransmissivity_)
       IN  /\ chk' = [chk EXCEPT !.checkData6 = c.ok, !.winTrans = c.winTrans,
                                 !.reported = IF c.ok THEN @ ELSE @ \cup {"windowTransmissivity_"}]
           /\ vpc' = IF c.raised THEN "error" ELSE "period"
    /\ UNCHANGED <<raw, invoked>>
    /\ UNCHANGED runVars

\* "Set the default parallel to true."
ParallelOf(p) == IF p = "None" THEN TRUE ELSE p = "True"

\* analysisPeriodOrHOY_: the whole year when not connected; an hour of the year
\* must lie in 1 .. 8760
PeriodChecked(p) ==
    IF p.kind = "hoy"
    THEN [ok |-> ~(p.hoy < 1 \/ p.hoy > YearHours), periodMethod |-> 1]
    ELSE [ok |-> TRUE, periodMethod |-> 0]

CheckAnalysisPeriod ==
    /\ vpc = "period"
    /\ LET c == PeriodChecked(raw.analysisPeriodOrHOY_)
       IN  chk' = [chk EXCEPT !.checkData9 = c.ok, !.periodMethod = c.periodMethod,
                              !.parallel = ParallelOf(raw.parallel_),
                              !.reported = IF c.ok THEN @ ELSE @ \cup {"analysisPeriodOrHOY_"}]
    /\ vpc' = "location"
    /\ UNCHANGED <<raw, invoked>>
    /\ UNCHANGED runVars

\* _location: when its numbers do not parse, the handler reports through the
\* name w, which is not bound in this function: the handler itself raises
LocationChecked(loc) ==
    CASE loc = "valid" -> [ok |-> TRUE, raised |-> FALSE]
      [] loc = "none" -> [ok |-> FALSE, raised |-> FALSE]
      [] OTHER -> [ok |-> FALSE, raised |-> TRUE]

CheckLocation ==
    /\ vpc = "location"
    /\ LET c == LocationChecked(raw.location)
       IN  /\ chk' = [chk EXCEPT !.checkData7 = c.ok,
                                 !.reported = IF c.ok THEN @ ELSE @ \cup {"location"}]
           /\ vpc' = IF c.raised THEN "error" ELSE "return"
    /\ UNCHANGED <<raw, invoked>>
    /\ UNCHANGED runVars

\* a final test that leaves the location flag out
AllChecksButLocation(c) ==
    /\ c.checkData1 /\ c.checkData2 /\ c.checkData3 /\ c.checkData4 /\ c.checkData5
    /\ c.checkData6 /\ c.checkData8 /\ c.checkData9

\* "Check if everything is good."
AllChecks(c) ==
    /\ c.checkData1 /\ c.checkData2 /\ c.checkData3 /\ c.checkData4 /\ c.checkData5
    /\ c.checkData6 /\ c.checkData7 /\ c.checkData8 /\ c.checkData9

ReturnCheckData ==
    /\ vpc = "return"
    /\ chk' = [chk EXCEPT !.checkData = AllChecks(chk), !.results = "tuple"]
    /\ vpc' = "returned"
    /\ UNCHANGED <<raw, invoked>>
    /\ UNCHANGED runVars

---------------------------------------------------------------------------
(* The module top level *)

\* manageInputOutput returns True; it is called only on accepted inputs
ManageInputOutput ==
    /\ vpc = "returned"
    /\ chk' = [chk EXCEPT !.checkInputOutput = chk.checkData /\ chk.results # "minus1"]
    /\ vpc' = "managed"
    /\ UNCHANGED <<raw, invoked>>
    /\ UNCHANGED runVars

\* the hours of the analysis period
HOYSOf(p) == IF p.kind = "hoy" THEN <<p.hoy>> ELSE p.hoys

\* analysisPeriodOrHOY != [(1, 1, 1), (12, 31, 24)] is false
IsDefaultPeriod(p) == p.kind = "absent" \/ (p.kind = "period" /\ p.hoys = FullYear)

ArgsOfRun ==
    [method |-> chk.methodInit, bodyPosture_ |-> raw.bodyPosture_,
     parallel |-> chk.parallel,
     HOYS |-> HOYSOf(raw.analysisPeriodOrHOY_), periodMethod |-> chk.periodMethod,
     defaultPeriod |-> IsDefaultPeriod(raw.analysisPeriodOrHOY_),
     radTemp |-> chk.radTemp, winTrans |-> chk.winTrans,
     alt |-> raw.alt, az |-> raw.az,
     northAngle |-> IF raw.north_ # NoneVal THEN raw.north_ ELSE 0,
     rotationAngle |-> IF raw.rotationAngle_ # NoneVal THEN raw.rotationAngle_ ELSE 0,
     sky |-> SkyOf(raw.level), directSolarRad |-> chk.directSolarRad,
     diffSolarRad |-> chk.diffSolarRad,
     groundR |-> chk.groundR, cloA |-> chk.cloA, context |-> raw.context,
     skyPatches |-> raw.skyPatches]

\* "Run the analysis."
RunAnalysis ==
    /\ vpc = "managed"
    /\ IF raw.runIt /\ chk.checkData /\ chk.checkInputOutput
       THEN /\ invoked' = IF chk.methodInit = 0 \/ chk.methodInit = 1
                          THEN "main" ELSE "mainSimple"
            /\ inp' = ArgsOfRun
            /\ pc' = "start"
       ELSE UNCHANGED <<invoked, inp, pc>>
    /\ vpc' = "end"
    /\ UNCHANGED <<raw, chk, radTemp, altitudes, finalWinTransmiss, skyViewFac, intDict,
                   ERF, MRTDelta, solarAdjustedMRT, hourOrder, seqCount, nextIdx, thr>>

---------------------------------------------------------------------------
(* main / mainSimple up to the dispatch: the period's radTemp, the solar   *)
(* altitudes, the window transmissivities, and the table built once (the   *)
(* intersection matrix, or the sky view factor).                           *)

\* 1 - sum(vecBlockedList)/totalVecNum over the Tregenza view vectors
SkyViewFactor ==
    IF inp.context.present
    THEN 1 - PyIntDiv(inp.context.viewBlocked, 145)
    ELSE 1

\* len(skyMtxLists): getCumulativeSky and getHourlySky give one entry per patch
\* of the sky other than the ground patch
SkyMtxLen == inp.skyPatches

\* len(prepareLBList(...)): the total, diffuse and direct lists, each with its
\* seven header items
PrepareLBListLen(n) == 3 * (7 + n)

\* runAnalyses assigns radResults, totalRadResults, listInfo and intersectionMtx
\* only under these two tests
RunAnalysesAssigns ==
    /\ PrepareLBListLen(SkyMtxLen) \in {456, 1752}
    /\ SkyMtxLen \in {145, 577}

\* main with an empty sky selection: the period's lists are built, then the
\* else branch returns six values to the caller, whose unpacking of eight
\* raises; the warning after the return statement is never reached
EmptySkySelection ==
    /\ pc = "start"
    /\ inp.method # 2
    /\ SkyMtxLen = 0
    /\ radTemp' = IF inp.defaultPeriod THEN inp.radTemp
                   ELSE [i \in 1 .. NHours |-> inp.radTemp[HOYS[i]]]
    /\ altitudes' = [i \in 1 .. NHours |-> inp.alt[HOYS[i]]]
    /\ finalWinTransmiss' = [i \in 1 .. NHours |-> inp.winTrans[HOYS[i]]]
    /\ pc' = "ValueError"
    /\ UNCHANGED <<inp, skyViewFac, intDict, ERF, MRTDelta, solarAdjustedMRT, hourOrder,
                   seqCount, nextIdx, thr>>
    /\ UNCHANGED chkVars

\* main with a sky of an unsupported size: runAnalyses skips the study and its
\* return statement reads names that were never assigned
RunAnalysesUnbound ==
    /\ pc = "start"
    /\ inp.method # 2
    /\ SkyMtxLen # 0
    /\ ~RunAnalysesAssigns
    /\ radTemp' = IF inp.defaultPeriod THEN inp.radTemp
                   ELSE [i \in 1 .. NHours |-> inp.radTemp[HOYS[i]]]
    /\ altitudes' = [i \in 1 .. NHours |-> inp.alt[HOYS[i]]]
    /\ finalWinTransmiss' = [i \in 1 .. NHours |-> inp.winTrans[HOYS[i]]]
    /\ pc' = "UnboundLocalError"
    /\ UNCHANGED <<inp, skyViewFac, intDict, ERF, MRTDelta, solarAdjustedMRT, hourOrder,
                   seqCount, nextIdx, thr>>
    /\ UNCHANGED chkVars

\* a preparation that builds its table as if there were no context
PrepareIgnoringContext ==
    /\ pc = "start"
    /\ inp.method = 2 \/ (SkyMtxLen # 0 /\ RunAnalysesAssigns)
    /\ radTemp' = IF inp.defaultPeriod THEN inp.radTemp
                   ELSE [i \in 1 .. NHours |-> inp.radTemp[HOYS[i]]]
    /\ altitudes' = [i \in 1 .. NHours |-> inp.alt[HOYS[i]]]
    /\ IF inp.method = 2
       THEN /\ skyViewFac' = 1
            /\ UNCHANGED <<finalWinTransmiss, intDict>>
       ELSE /\ finalWinTransmiss' = [i \in 1 .. NHours |-> inp.winTrans[HOYS[i]]]
            /\ intDict' = BuildIntersectionMtx({})
            /\ UNCHANGED skyViewFac
    /\ pc' = "dispatch"
    /\ UNCHANGED <<inp, ERF, MRTDelta, solarAdjustedMRT, hourOrder, seqCount, nextIdx, thr>>
    /\ UNCHANGED chkVars

Prepare ==
    /\ pc = "start"
    /\ inp.method = 2 \/ (SkyMtxLen # 0 /\ RunAnalysesAssigns)
    /\ radTemp' = IF inp.defaultPeriod THEN inp.radTemp
                   ELSE [i \in 1 .. NHours |-> inp.radTemp[HOYS[i]]]
    /\ altitudes' = [i \in 1 .. NHours |-> inp.alt[HOYS[i]]]
    /\ IF inp.method = 2
       THEN /\ skyViewFac' = SkyViewFactor
            /\ UNCHANGED <<finalWinTransmiss, intDict>>
       ELSE /\ finalWinTransmiss' = [i \in 1 .. NHours |-> inp.winTrans[HOYS[i]]]
            /\ intDict' = BuildIntersectionMtx(inp.context.blocked)
            /\ UNCHANGED skyViewFac
    /\ pc' = "dispatch"
    /\ UNCHANGED <<inp, ERF, MRTDelta, solarAdjustedMRT, hourOrder, seqCount, nextIdx, thr>>
    /\ UNCHANGED chkVars

\* an iteration that stores the adjusted temperature over the hour's baseline
SequentialHourInPlace ==
    /\ pc = "dispatch"
    /\ ~inp.parallel
    /\ seqCount < NHours
    /\ LET r == hourResult(seqCount)
       IN  /\ ERF' = Append(ERF, r.erf)
           /\ solarAdjustedMRT' = Append(solarAdjustedMRT, r.mrt)
           /\ MRTDelta' = Append(MRTDelta, r.delta)
           /\ radTemp' = [radTemp EXCEPT ![seqCount + 1] = r.mrt]
    /\ seqCount' = seqCount + 1
    /\ UNCHANGED <<inp, pc, altitudes, finalWinTransmiss, skyViewFac, intDict,
                   hourOrder, nextIdx, thr>>
    /\ UNCHANGED chkVars

\* nonParallelRadCalc / nonParallelMRTCalc: one iteration of the loop
SequentialHour ==
    /\ pc = "dispatch"
    /\ ~inp.parallel
    /\ seqCount < NHours
    /\ LET r == hourResult(seqCount)
       IN  /\ ERF' = Append(ERF, r.erf)
           /\ solarAdjustedMRT' = Append(solarAdjustedMRT, r.mrt)
           /\ MRTDelta' = Append(MRTDelta, r.delta)
    /\ seqCount' = seqCount + 1
    /\ UNCHANGED <<inp, pc, radTemp, altitudes, finalWinTransmiss, skyViewFac, intDict,
                   hourOrder, nextIdx, thr>>
    /\ UNCHANGED chkVars

\* Parallel.ForEach hands the next index of range(len(HOYS)) to an idle thread,
\* which computes the hour's values (its locals) from the shared read-only inputs
TakeHour(t) ==
    /\ pc = "dispatch"
    /\ inp.parallel
    /\ thr[t].idx = -1
    /\ nextIdx < NHours
    /\ thr' = [thr EXCEPT ![t] = [idx |-> nextIdx, step |-> 0, r |-> hourResult(nextIdx)]]
    /\ nextIdx' = nextIdx + 1
    /\ UNCHANGED <<inp, pc, radTemp, altitudes, finalWinTransmiss, skyViewFac, intDict,
                   ERF, MRTDelta, solarAdjustedMRT, hourOrder, seqCount>>
    /\ UNCHANGED chkVars

\* radCalc / MRTCalc: the next of the worker's appends to the shared lists; each
\* list.append is atomic, the four of one worker are not
WorkerAppend(t) ==
    /\ pc = "dispatch"
    /\ thr[t].idx >= 0
    /\ LET w == thr[t]
           which == IF w.step < 3 THEN w.r.order[w.step + 1] ELSE "hourOrder"
       IN  /\ ERF' = IF which = "ERF" THEN Append(ERF, w.r.erf) ELSE ERF
           /\ solarAdjustedMRT' =
                  IF which = "MRT" THEN Append(solarAdjustedMRT, w.r.mrt) ELSE solarAdjustedMRT
           /\ MRTDelta' = IF which = "Delta" THEN Append(MRTDelta, w.r.delta) ELSE MRTDelta
           /\ hourOrder' = IF which = "hourOrder" THEN Append(hourOrder, w.idx) ELSE hourOrder
           /\ thr' = [thr EXCEPT ![t] = IF w.step < 3
                                        THEN [w EXCEPT !.step = w.step + 1]
                                        ELSE Idle]
    /\ UNCHANGED <<inp, pc, radTemp, altitudes, finalWinTransmiss, skyViewFac, intDict,
                   seqCount, nextIdx>>
    /\ UNCHANGED chkVars

\* [x for (y,x) in sorted(zip(order, xs))]: the keys are compared first
SortedByOrder(order, xs) ==
    LET n == IF Len(order) < Len(xs) THEN Len(order) ELSE Len(xs)
        before(i, j) ==
            \/ order[i] < order[j]
            \/ order[i] = order[j] /\ (RLt(xs[i], xs[j]) \/ (xs[i] = xs[j] /\ i < j))
        rank(i) == Cardinality({j \in 1 .. n : before(j, i)})
    IN  [k \in 1 .. n |-> xs[CHOOSE i \in 1 .. n : rank(i) = k - 1]]

\* a wait that ends when the last index is handed out
LastHourTaken ==
    IF inp.parallel
    THEN nextIdx = NHours
    ELSE seqCount = NHours

AllHoursDone ==
    IF inp.parallel
    THEN nextIdx = NHours /\ \A t \in Threads : thr[t].idx = -1
    ELSE seqCount = NHours

\* the end of the run: after a parallel run the lists are re-ordered by hourOrder
Reorder ==
    /\ pc = "dispatch"
    /\ AllHoursDone
    /\ IF inp.parallel
       THEN /\ ERF' = SortedByOrder(hourOrder, ERF)
            /\ MRTDelta' = SortedByOrder(hourOrder, MRTDelta)
            /\ solarAdjustedMRT' = SortedByOrder(hourOrder, solarAdjustedMRT)
       ELSE UNCHANGED <<ERF, MRTDelta, solarAdjustedMRT>>
    /\ pc' = "done"
    /\ UNCHANGED <<inp, radTemp, altitudes, finalWinTransmiss, skyViewFac, intDict,
                   hourOrder, seqCount, nextIdx, thr>>
    /\ UNCHANGED chkVars

Next ==
    \/ CheckRelease
    \/ CheckMeanRadTemperature
    \/ CheckRadiationInput
    \/ CheckDiffuse
    \/ CheckBodyPosture
    \/ CheckGroundReflectivity
    \/ CheckClothingAbsorptivity
    \/ CheckWindowTransmissivity
    \/ CheckAnalysisPeriod
    \/ CheckLocation
    \/ ReturnCheckData
    \/ ManageInputOutput
    \/ RunAnalysis
    \/ Prepare
    \/ EmptySkySelection
    \/ RunAnalysesUnbound
    \/ SequentialHour
    \/ \E t \in Threads : TakeHour(t)
    \/ \E t \in Threads : WorkerAppend(t)
    \/ Reorder

Spec == Init /\ [][Next]_vars

\* the valid runs, sequential and parallel, of both engines and every sky size
DispatchRuns == ParallelRuns \cup SkyRuns

FairInit == Init /\ raw \in DispatchRuns

\* SequentialHour as seen on the loop counter: the for loop over HOYS goes on
\* to its next iteration
NextIteration ==
    /\ pc = "dispatch"
    /\ ~inp.parallel
    /\ seqCount < NHours
    /\ seqCount' = seqCount + 1

\* TakeHour as seen on the index counter: Parallel.ForEach hands the next index
\* to an idle worker
NextIndexTaken ==
    /\ pc = "dispatch"
    /\ inp.parallel
    /\ nextIdx < NHours
    /\ \E t \in Threads : thr[t].idx = -1
    /\ nextIdx' = nextIdx + 1

\* the dispatch is straight-line code with nothing to cancel or suspend it: a
\* for loop over a finite list goes through its iterations, the workers of
\* Parallel.ForEach run their appends and ForEach returns when they have
\* returned, and the statements after the loop are then executed
FairSpec ==
    /\ FairInit
    /\ [][Next]_vars
    /\ WF_seqCount(NextIteration)
    /\ WF_nextIdx(NextIndexTaken)
    /\ \A t \in Threads : WF_vars(WorkerAppend(t))
    /\ WF_vars(Reorder)

---------------------------------------------------------------------------
(* Properties of the per-hour dispatch *)

Hours == 1 .. NHours
Finished == pc = "done"

\* the period's neighbours of the i-th hour, wrapping at the ends of the array
PrevHour(i) == IF i = 1 THEN NHours ELSE i - 1
NextHour(i) == IF i = NHours THEN 1 ELSE i + 1

SeriesEqualSequential ==
    /\ ERF = [k \in Hours |-> hourResult(k - 1).erf]
    /\ MRTDelta = [k \in Hours |-> hourResult(k - 1).delta]
    /\ solarAdjustedMRT = [k \in Hours |-> hourResult(k - 1).mrt]

(* C1: after the sort on hourOrder a parallel run has, under every          *)
(* interleaving of the workers' appends, exactly the three series of the     *)
(* sequential loop on the same inputs, in main and in mainSimple.            *)
C1_ParallelEqualsSequential ==
    (Finished /\ inp.parallel) => SeriesEqualSequential

\* the sequential loop itself produces these series
C1_Sequential ==
    (Finished /\ ~inp.parallel) => SeriesEqualSequential

(* C2: when all parallel workers have finished, hourOrder[k] is the index    *)
(* of the hour whose results are at position k of ERF, of MRTDelta and of    *)
(* solarAdjustedMRT, whatever the interleaving.                              *)
C2_ListsAlignedWithHourOrder ==
    (pc = "dispatch" /\ inp.parallel /\ AllHoursDone) =>
        \A k \in 1 .. Len(hourOrder) :
            /\ ERF[k] = hourResult(hourOrder[k]).erf
            /\ MRTDelta[k] = hourResult(hourOrder[k]).delta
            /\ solarAdjustedMRT[k] = hourResult(hourOrder[k]).mrt

NightAround(i) ==
    /\ altitudes[i] <= 0
    /\ altitudes[PrevHour(i)] <= 0
    /\ altitudes[NextHour(i)] <= 0

ZeroAtHour(i) ==
    /\ ERF[i] = RZero
    /\ MRTDelta[i] = RZero
    /\ solarAdjustedMRT[i] = radTemp[i]

(* C3: in main, an hour of the period whose solar altitude is <= 0 and whose *)
(* previous and next hours are also <= 0 has ERF 0, MRT delta 0 and the      *)
(* baseline MRT of that hour as solar-adjusted MRT, sequentially and in      *)
(* parallel, at every position of the period.                                *)
C3_NightHoursZero ==
    (Finished /\ invoked = "main") =>
        \A i \in Hours : NightAround(i) => ZeroAtHour(i)

\* C3 for the sequential loop alone
C3_Sequential ==
    (Finished /\ invoked = "main" /\ ~inp.parallel) =>
        \A i \in Hours : NightAround(i) => ZeroAtHour(i)

(* C4: at every output position i, in main and mainSimple, sequential and    *)
(* parallel, solarAdjustedMRT[i] - MRTDelta[i] is the baseline MRT of the    *)
(* i-th hour of the analysis period.                                         *)
C4_DeltaRestoresBaseline ==
    Finished =>
        \A i \in Hours : RSub(solarAdjustedMRT[i], MRTDelta[i]) = radTemp[i]

\* C4 for the sequential loop alone
C4_Sequential ==
    (Finished /\ ~inp.parallel) =>
        \A i \in Hours : RSub(solarAdjustedMRT[i], MRTDelta[i]) = radTemp[i]

(* C5: with non-negative radiation and validated reflectivity, absorptivity  *)
(* and transmissivity every hourly ERF is >= 0, and in main the radiation    *)
(* accumulated at every sample point is >= 0.                                *)
C5_EnergyNonNegative ==
    /\ \A k \in 1 .. Len(ERF) : RNonNeg(ERF[k])
    /\ (pc \in {"dispatch", "done"} /\ invoked = "main") =>
           \A count \in 0 .. NHours - 1 : \A pt \in Points : RNonNeg(radValue(count, pt))
    /\ (pc \in {"dispatch", "done"} /\ invoked = "mainSimple") =>
           \A count \in 0 .. NHours - 1 : RNonNeg(hourResult(count).erf)

C5_Witness ==
    /\ Finished
    /\ invoked = "main"
    /\ \E k \in Hours : RPos(ERF[k])
    /\ \E pt \in Points : RPos(radValue(0, pt))
    /\ inp.groundR = Half
    /\ inp.context.present

\* the same in mainSimple
C5_WitnessSimple ==
    /\ Finished
    /\ invoked = "mainSimple"
    /\ \E k \in Hours : RPos(ERF[k])

\* a fraction strictly between 0 and 1
StrictFraction(x) == IsNumber(x) /\ 0 < x[1] /\ x[1] < x[2]

Returned == vpc \in {"returned", "managed", "end"} /\ chk.results = "tuple"

(* C6: a groundReflectivity_ or clothingAbsorptivity_ that is 0, 1 or        *)
(* outside (0,1) is rejected (checkData false, no computation); every value  *)
(* strictly between 0 and 1 is accepted; absent inputs default to 0.25 and   *)
(* 0.7.                                                                      *)
C6_OpenUnitInterval ==
    LET g == raw.groundReflectivity_
        a == raw.clothingAbsorptivity_
    IN  /\ ((IsNumber(g) /\ ~StrictFraction(g)) \/ (IsNumber(a) /\ ~StrictFraction(a))) =>
               /\ ~chk.checkData
               /\ invoked = "none"
               /\ pc = "idle"
        /\ Returned =>
               /\ StrictFraction(g) => (chk.checkData4 /\ chk.groundR = g)
               /\ StrictFraction(a) => (chk.checkData5 /\ chk.cloA = a)
               /\ g = NaV => (chk.checkData4 /\ chk.groundR = <<1, 4>>)
               /\ a = NaV => (chk.checkData5 /\ chk.cloA = <<7, 10>>)
               /\ (IsNumber(g) /\ ~StrictFraction(g)) => ~chk.checkData4
               /\ (IsNumber(a) /\ ~StrictFraction(a)) => ~chk.checkData5

C6_Witness ==
    /\ vpc = "end"
    /\ raw.runIt
    /\ raw.groundReflectivity_ = ROne
    /\ raw.clothingAbsorptivity_ = NaV
    /\ ~chk.checkData4
    /\ chk.checkData5
    /\ chk.cloA = <<7, 10>>
    /\ invoked = "none"

\* an accepted value strictly inside the interval reaches the engine
C6_WitnessAccepted ==
    /\ Finished
    /\ raw.groundReflectivity_ = Half
    /\ inp.groundR = Half

(* C7: in mainSimple, an hour whose window transmissivity is 0 has ERF 0,    *)
(* MRT delta 0 and its baseline MRT as solar-adjusted MRT, whatever the      *)
(* radiation, solar position, sky-view factor and fBes of the hour.          *)
C7_ZeroTransmissivityZero ==
    (Finished /\ invoked = "mainSimple") =>
        \A i \in Hours : inp.winTrans[HOYS[i]] = RZero => ZeroAtHour(i)

\* C7 for the sequential loop alone
C7_Sequential ==
    (Finished /\ invoked = "mainSimple" /\ ~inp.parallel) =>
        \A i \in Hours : inp.winTrans[HOYS[i]] = RZero => ZeroAtHour(i)

DarkSky(i) == \A p \in 1 .. NPatches : skyMatrix(i - 1)[p] = RZero

\* a patch with radiation that a body sample point sees at a positive cosine
LitPatch(i) ==
    \E p \in 1 .. NPatches : \E pt \in 0 .. NBodyPts - 1 :
        /\ RPos(skyMatrix(i - 1)[p])
        /\ intDict[pt][p - 1].isIntersect
        /\ RPos(intDict[pt][p - 1].cosAngle)

(* C8: in main without context, an hour whose sky patches all have zero      *)
(* radiation has ERF 0 and its baseline as solar-adjusted MRT, and an hour   *)
(* with positive radiation on a patch seen at a positive cosine from a body  *)
(* sample point has ERF > 0.                                                 *)
C8_SkyDecidesERF ==
    (Finished /\ invoked = "main" /\ ~inp.context.present) =>
        \A i \in Hours :
            /\ DarkSky(i) => (ERF[i] = RZero /\ solarAdjustedMRT[i] = radTemp[i])
            /\ LitPatch(i) => RPos(ERF[i])

\* the dark hours of the sequential loop
C8_SequentialDark ==
    (Finished /\ invoked = "main" /\ ~inp.context.present /\ ~inp.parallel) =>
        \A i \in Hours :
            DarkSky(i) => (ERF[i] = RZero /\ solarAdjustedMRT[i] = radTemp[i])

\* the sequential loop with the sun up, a lit patch and an open window
C8_SequentialLit ==
    (Finished /\ invoked = "main" /\ ~inp.context.present /\ ~inp.parallel) =>
        \A i \in Hours :
            (LitPatch(i) /\ altitudes[i] > 0 /\ RPos(finalWinTransmiss[i])) => RPos(ERF[i])

---------------------------------------------------------------------------
(* Properties of the validation *)

FlagNames ==
    {"checkData1", "checkData2", "checkData3", "checkData4", "checkData5",
     "checkData6", "checkData7", "checkData8", "checkData9"}

NoOutput == ERF = <<>> /\ MRTDelta = <<>> /\ solarAdjustedMRT = <<>>

(* C9: main and mainSimple are invoked, and output is produced, only if      *)
(* every flag checkData1..checkData9 is true, the input/output management    *)
(* succeeded and _runIt is true.                                             *)
C9_NoRunUnlessAllValid ==
    (invoked # "none" \/ pc # "idle" \/ ~NoOutput) =>
        /\ \A f \in FlagNames : chk[f]
        /\ chk.checkInputOutput
        /\ raw.runIt
        /\ raw.location = "valid"
        /\ raw.radInput \in {"sky", "dirNorm"}

C9_Witness ==
    /\ vpc = "end"
    /\ raw.runIt
    /\ ~chk.checkData7
    /\ \A f \in FlagNames \ {"checkData7"} : chk[f]
    /\ invoked = "none"
    /\ NoOutput

\* with every input valid and _runIt set the engine runs
C9_WitnessRun ==
    /\ Finished
    /\ invoked = "mainSimple"
    /\ ~NoOutput

\* the input each flag stands for
InputOf(f) ==
    CASE f = "checkData1" -> "meanRadTemperature"
      [] f = "checkData2" -> "radInput"
      [] f = "checkData3" -> "bodyPosture_"
      [] f = "checkData4" -> "groundReflectivity_"
      [] f = "checkData5" -> "clothingAbsorptivity_"
      [] f = "checkData6" -> "windowTransmissivity_"
      [] f = "checkData7" -> "location"
      [] f = "checkData8" -> "diffuseHorizRad"
      [] OTHER -> "analysisPeriodOrHOY_"

(* C10: whatever inputs are invalid, checkTheInputs never ends in an         *)
(* unhandled error, runs every check, and when it returns has reported each  *)
(* invalid input and set checkData false.                                    *)
C10_AllChecksRunAndReported ==
    /\ vpc # "error"
    /\ Returned =>
           /\ \A f \in FlagNames : ~chk[f] => InputOf(f) \in chk.reported
           /\ (\E f \in FlagNames : ~chk[f]) => ~chk.checkData

\* what does hold: a run that returns has set checkData false on any failure
C10_ReturnedFlag ==
    Returned => ((\E f \in FlagNames : ~chk[f]) => ~chk.checkData)

---------------------------------------------------------------------------
(* Properties of the output series *)

\* each series has one entry per hour, each hour index was handed out once
OnePerHour ==
    /\ Len(ERF) = NHours
    /\ Len(MRTDelta) = NHours
    /\ Len(solarAdjustedMRT) = NHours
    /\ inp.parallel =>
           /\ Len(hourOrder) = NHours
           /\ \A c \in 0 .. NHours - 1 :
                  Cardinality({k \in 1 .. NHours : hourOrder[k] = c}) = 1

(* C11: after a completed run, in both engines and both modes, each series   *)
(* has exactly one entry per hour of the period, every hour index was        *)
(* processed once, and the entry at position i is the one of the i-th hour   *)
(* of the period whatever the order the hours were computed in.              *)
C11_OneEntryPerHourInOrder ==
    Finished =>
        /\ OnePerHour
        /\ \A i \in Hours :
               /\ ERF[i] = hourResult(i - 1).erf
               /\ MRTDelta[i] = hourResult(i - 1).delta
               /\ solarAdjustedMRT[i] = hourResult(i - 1).mrt

\* the counts alone, in both modes
C11_Counts ==
    Finished => OnePerHour

\* delta = erf / (fracEff x 6.012) and MRT = delta + baseline at position i
ConvertedAt(i, erf) ==
    /\ MRTDelta[i] = RDiv(erf, RMul(fracEff, radTransCoeff))
    /\ solarAdjustedMRT[i] = RAdd(MRTDelta[i], radTemp[i])

(* C12: for every hour of the output, in main and in mainSimple, the         *)
(* reported MRT delta is the reported ERF of the hour divided by             *)
(* (fracEff x 6.012) and the reported solar-adjusted MRT is that delta plus  *)
(* the baseline MRT of the hour.                                             *)
C12_DeltaFromReportedERF ==
    Finished => \A i \in Hours : ConvertedAt(i, ERF[i])

\* mainSimple's sequential loop reports the ERF the delta is computed from
C12_SimpleSequential ==
    (Finished /\ invoked = "mainSimple" /\ ~inp.parallel) =>
        \A i \in Hours : ConvertedAt(i, ERF[i])

\* main's sequential loop reports a thousandth of the ERF the delta is computed from
C12_MainSequential ==
    (Finished /\ invoked = "main" /\ ~inp.parallel) =>
        \A i \in Hours : ConvertedAt(i, RMul(R(1000), ERF[i]))

\* the low-resolution ERF of the hour at index count for a sun-visibility fraction fb
LowResERF(count, fb) ==
    LET glob == RAdd(RMul(dirNormRad(count), Sin(altitudes[count + 1])), diffRad(count))
        sky == RMul(RMul(RMul(Half, fracEff), R(skyViewFac)),
                    RAdd(diffRad(count), RMul(glob, inp.groundR)))
        sun == RMul(RMul(RMul(fracEff, ProjAreaFac(count)), fb), dirNormRad(count))
    IN  RMul(RMul(RAdd(sky, sun), inp.winTrans[HOYS[count + 1]]),
             RDiv(inp.cloA, AbsorbRef))

\* the fraction of the mannequin points with a free ray to the sun
SunFraction(count) ==
    IF inp.context.present
    THEN RNorm(inp.context.sunFree[HOYS[count + 1]], MannequinPts)
    ELSE ROne

(* C13: in mainSimple, for every hour with solar altitude > 0 and every      *)
(* fBes in [0,1], the ERF is (0.5 fracEff skyView (diffuse + global x        *)
(* groundR) + fracEff projAreaFac fBes direct) x winTrans x (cloA / 0.95);   *)
(* the diffuse and ground-reflected term stays when the sun is blocked.      *)
C13_LowResFormula ==
    (Finished /\ invoked = "mainSimple") =>
        \A i \in Hours :
            altitudes[i] > 0 => ERF[i] = LowResERF(i - 1, SunFraction(i - 1))

\* the sequential loop when every mannequin point sees the sun
C13_SequentialSunFree ==
    (Finished /\ invoked = "mainSimple" /\ ~inp.parallel) =>
        \A i \in Hours :
            (altitudes[i] > 0 /\ SunFraction(i - 1) = ROne) =>
                ERF[i] = LowResERF(i - 1, ROne)

(* C14: in mainSimple, an hour whose own solar altitude is <= 0 has ERF 0,   *)
(* MRT delta 0 and its input baseline as solar-adjusted MRT, and neither the *)
(* sun-ray occlusion test nor the projected-area-factor lookup is done for   *)
(* it.                                                                       *)
C14_LowResNightHour ==
    (Finished /\ invoked = "mainSimple") =>
        \A i \in Hours :
            altitudes[i] <= 0 =>
                /\ ZeroAtHour(i)
                /\ ~simple_castsSunRays(i - 1)
                /\ ~simple_looksUpProjArea(i - 1)

\* C14 for the sequential loop alone
C14_Sequential ==
    (Finished /\ invoked = "mainSimple" /\ ~inp.parallel) =>
        \A i \in Hours :
            altitudes[i] <= 0 =>
                /\ ZeroAtHour(i)
                /\ ~simple_castsSunRays(i - 1)
                /\ ~simple_looksUpProjArea(i - 1)

\* the mannequin points with a free ray to the sun at the hour, out of MannequinPts
SunFreePts(count) == inp.context.sunFree[HOYS[count + 1]]

(* C15: in mainSimple with context, at an hour with the sun up where k of    *)
(* the n mannequin points have a free ray to the sun, the fBes of the hour   *)
(* is k/n, for every k in 0..n.                                              *)
C15_FBesIsFraction ==
    (Finished /\ invoked = "mainSimple" /\ inp.context.present) =>
        \A i \in Hours :
            altitudes[i] > 0 =>
                R(fBes(i - 1)) = RNorm(SunFreePts(i - 1), MannequinPts)

\* what the code computes instead: 1 when no ray is blocked, 0 otherwise
C15_AllOrNothing ==
    (Finished /\ invoked = "mainSimple" /\ inp.context.present) =>
        \A i \in Hours :
            fBes(i - 1) = IF SunFreePts(i - 1) = MannequinPts THEN 1 ELSE 0

\* the run has built its sky view factor
Prepared == pc \notin {"idle", "start"}

(* C16: in mainSimple, when b of the 145 hemisphere directions from the      *)
(* middle point are blocked by context, the sky view factor of the run is    *)
(* 1 - b/145, for every b in 0..145, and it is 1 without context.            *)
C16_SkyViewIsFraction ==
    (Prepared /\ invoked = "mainSimple") =>
        R(skyViewFac) = IF inp.context.present
                        THEN RSub(ROne, RNorm(inp.context.viewBlocked, 145))
                        ELSE ROne

\* what the code computes instead: 0 when every direction is blocked, 1 otherwise
C16_AllOrNothing ==
    (Prepared /\ invoked = "mainSimple") =>
        skyViewFac = IF inp.context.present /\ inp.context.viewBlocked = 145
                     THEN 0 ELSE 1

\* the sky view factor is computed once: no step after the preparation changes it
C16_ComputedOnce == [][Prepared => skyViewFac' = skyViewFac]_vars

\* bodyPosture_ is set to something that is not a posture code
BadPosture == raw.bodyPosture_ \notin ({NoneVal} \cup (0 .. 5))

(* C17: whichever radiation input selects the method, a bodyPosture_ set     *)
(* outside 0..5 is reported as invalid by checkTheInputs and neither main    *)
(* nor mainSimple runs with it.                                              *)
C17_BadPostureRejected ==
    (vpc = "end" /\ raw.release = "ok" /\ BadPosture) =>
        /\ ~chk.checkData3
        /\ "bodyPosture_" \in chk.reported
        /\ invoked = "none"

\* C17 when the radiation input is a sky matrix
C17_SkyMatrixMethod ==
    (vpc = "end" /\ raw.release = "ok" /\ BadPosture /\ raw.radInput = "sky") =>
        /\ ~chk.checkData3
        /\ "bodyPosture_" \in chk.reported
        /\ invoked = "none"

\* mainSimple has run to its end with a bodyPosture_ that is not a posture code
C17_RanWithBadPosture ==
    /\ Finished
    /\ invoked = "mainSimple"
    /\ BadPosture
    /\ chk.checkData3

---------------------------------------------------------------------------
(* Failures of the run *)

\* the warning main has for an empty sky selection
SkyFailure == "cumulativeSkyMtx failed to collect data."

\* main has left its preparation
MainLeftStart == invoked = "main" /\ pc # "start"

(* C18: when the sky selection of the period is empty (len(skyMtxLists) = 0) *)
(* the run of main ends in a failure reported with the message               *)
(* 'cumulativeSkyMtx failed to collect data.', and the caller gets that      *)
(* outcome, not an unrelated error.                                          *)
C18_EmptySkyReported ==
    (MainLeftStart /\ inp.skyPatches = 0) => pc = SkyFailure

\* what the code does instead: the caller's unpacking raises, with no output
C18_UnpackError ==
    (MainLeftStart /\ inp.skyPatches = 0) => (pc = "ValueError" /\ NoOutput)

\* the sky has patches, but not as many as either supported discretisation
UnsupportedSky == inp.skyPatches \notin {0, 145, 577}

(* C19: a sky matrix whose patch count is neither 145 nor 577 makes the run  *)
(* of main fail with an explicit invalid-sky-matrix error before any hour's  *)
(* flux is computed: no hourly dispatch, and no unrelated error.             *)
C19_InvalidSkyMatrixError ==
    (MainLeftStart /\ UnsupportedSky) =>
        /\ pc = "InvalidSkyMatrix"
        /\ NoOutput

\* what the code does instead: no dispatch, but the error is the unbound name
C19_UnboundName ==
    (MainLeftStart /\ UnsupportedSky) =>
        /\ pc = "UnboundLocalError"
        /\ NoOutput

\* the two supported sizes go on to the dispatch
C19_SupportedSkyDispatched ==
    (MainLeftStart /\ inp.skyPatches \in {145, 577}) => pc \in {"dispatch", "done"}

---------------------------------------------------------------------------
(* Termination of the dispatch *)

Dispatching == pc = "dispatch"

\* the run is over with one entry per hour of the period in each series
Ordered == Finished /\ OnePerHour

(* C20: once the per-hour dispatch has started the run always ends in the    *)
(* ordered state with the full series: every hour of the period is           *)
(* eventually processed, the reordering runs only after all hours have       *)
(* completed, and no end state has a result for only part of the hours.      *)
C20_DispatchEndsOrdered ==
    /\ Dispatching ~> Ordered
    /\ [][(Dispatching /\ Finished') => AllHoursDone]_vars
    /\ [](Finished => OnePerHour)

\* a parallel run over several hours that was dispatched and has ended ordered
C20_Witness ==
    /\ Ordered
    /\ inp.parallel
    /\ NHours >= 2
    /\ Len(hourOrder) = NHours

---------------------------------------------------------------------------
(* Ladybug_Wind Speed Calculator: checkTheInputs.  The component's inputs    *)
(* are held in raw, what checkTheInputs has computed in chk, and its         *)
(* position in vpc; the engine's variables are not used.                     *)

MaxWindLen == 3

\* an item of an input list: a number, or something float() refuses
WindNum(v) == [num |-> TRUE, val |-> v]
WindJunk == [num |-> FALSE, val |-> 0]
WindItems == {WindNum(0), WindNum(-1), WindJunk}

\* a plain list of items, and a list behind the seven header items of EPW data
WindPlain(items) == [epw |-> FALSE, items |-> items]
WindEpw(items) == [epw |-> TRUE, items |-> items]

WindLists ==
    { WindPlain(l) : l \in UNION { [1 .. n -> WindItems] : n \in 0 .. MaxWindLen } }
        \cup { WindEpw(l) : l \in UNION { [1 .. n -> {WindNum(0), WindNum(-1)}] : n \in 0 .. 2 } }

WindInputs(speed, dir, height, terrain, epwTerrain) ==
    [windSpeed_tenMeters |-> speed, windDirection_ |-> dir, heightAboveGround_ |-> height,
     terrainType |-> terrain, epwTerrain_ |-> epwTerrain]

WindInputSets ==
    { WindInputs(speed, dir, <<>>, 1, NoneVal) : speed \in WindLists, dir \in WindLists }
        \cup { WindInputs(WindPlain(<<WindNum(0)>>), WindPlain(<<>>), height, terrain, epwTerrain) :
                 height \in {<<>>, <<1>>, <<1, -1>>}, terrain \in {NoneVal, 0, 3, 4},
                 epwTerrain \in {NoneVal, 0, 3, 4} }

WindNoCheck ==
    [checkData1 |-> FALSE, checkData2 |-> FALSE, checkData3 |-> FALSE, checkData4 |-> FALSE,
     checkData5 |-> FALSE, checkData6 |-> FALSE, checkData |-> FALSE,
     windSpeed |-> <<>>, windDir |-> <<>>, windMultVal |-> FALSE, dirMultVal |-> FALSE,
     calcLength |-> 0, epwData |-> FALSE, epwTerrain |-> NoneVal]

WindInit ==
    /\ raw \in WindInputSets
    /\ chk = WindNoCheck
    /\ vpc = "windSpeed"
    /\ invoked = "none"
    /\ inp = NoArgs
    /\ pc = "idle"
    /\ radTemp = <<>>
    /\ altitudes = <<>>
    /\ finalWinTransmiss = <<>>
    /\ skyViewFac = 1
    /\ intDict = <<>>
    /\ ERF = <<>>
    /\ MRTDelta = <<>>
    /\ solarAdjustedMRT = <<>>
    /\ hourOrder = <<>>
    /\ seqCount = 0
    /\ nextIdx = 0
    /\ thr = [t \in Threads |-> Idle]

\* the loop over the items of a plain list: a number >= 0 is appended and sets
\* the flag, a negative number clears nonPositive, anything else clears the flag
RECURSIVE WindLoop(_, _)
WindLoop(items, n) ==
    IF n = 0
    THEN [vals |-> <<>>, flag |-> FALSE, nonPositive |-> TRUE]
    ELSE LET before == WindLoop(items, n - 1)
             item == items[n]
         IN  IF ~item.num
             THEN [before EXCEPT !.flag = FALSE]
             ELSE IF item.val >= 0
             THEN [before EXCEPT !.vals = Append(@, item.val), !.flag = TRUE]
             ELSE [before EXCEPT !.nonPositive = FALSE]

\* the check of one of the two lists: EPW data is taken as it is, behind its header
WindListChecked(list) ==
    IF list.epw
    THEN [vals |-> [k \in 1 .. Len(list.items) |-> list.items[k].val], ok |-> TRUE,
          epw |-> TRUE]
    ELSE LET r == WindLoop(list.items, Len(list.items))
         IN  [vals |-> r.vals, ok |-> r.flag /\ r.nonPositive, epw |-> FALSE]

WindCheckSpeed ==
    /\ vpc = "windSpeed"
    /\ LET l == raw.windSpeed_tenMeters
           c == WindListChecked(l)
       IN  chk' = IF ~l.epw /\ l.items = <<>>
                  THEN [chk EXCEPT !.checkData1 = FALSE]
                  ELSE [chk EXCEPT !.checkData1 = c.ok, !.windSpeed = c.vals,
                                   !.windMultVal = Len(c.vals) > 1,
                                   !.epwData = c.epw]
    /\ vpc' = "windDir"
    /\ UNCHANGED <<raw, invoked>>
    /\ UNCHANGED runVars

WindCheckDirection ==
    /\ vpc = "windDir"
    /\ LET l == raw.windDirection_
           c == WindListChecked(l)
       IN  chk' = IF ~l.epw /\ l.items = <<>>
                  THEN [chk EXCEPT !.checkData2 = TRUE, !.windDir = <<0>>]
                  ELSE [chk EXCEPT !.checkData2 = c.ok, !.windDir = c.vals,
                                   !.dirMultVal = Len(c.vals) > 1,
                                   !.epwData = @ \/ c.epw]
    /\ vpc' = "lengths"
    /\ UNCHANGED <<raw, invoked>>
    /\ UNCHANGED runVars

\* duplicateData(data, calcLength): data[0] repeated, which raises on an empty list
duplicateData(data, calcLength) == [k \in 1 .. calcLength |-> data[1]]

\* the lists with more than one value must have one length; the other is duplicated
WindCheckLengths ==
    /\ vpc = "lengths"
    /\ IF chk.checkData1 /\ chk.checkData2
       THEN IF chk.windMultVal \/ chk.dirMultVal
            THEN LET listLenCheck ==
                         (IF chk.windMultVal THEN <<Len(chk.windSpeed)>> ELSE <<>>)
                             \o (IF chk.dirMultVal THEN <<Len(chk.windDir)>> ELSE <<>>)
                     calcLength == listLenCheck[1]
                 IN  IF \A k \in 1 .. Len(listLenCheck) : listLenCheck[k] = listLenCheck[1]
                     THEN IF (~chk.windMultVal /\ chk.windSpeed = <<>>)
                               \/ (~chk.dirMultVal /\ chk.windDir = <<>>)
                          THEN /\ vpc' = "IndexError"
                               /\ chk' = [chk EXCEPT !.checkData5 = TRUE,
                                                     !.calcLength = calcLength]
                          ELSE /\ vpc' = "height"
                               /\ chk' = [chk EXCEPT
                                     !.checkData5 = TRUE, !.calcLength = calcLength,
                                     !.windSpeed = IF chk.windMultVal THEN @
                                                   ELSE duplicateData(@, calcLength),
                                     !.windDir = IF chk.dirMultVal THEN @
                                                 ELSE duplicateData(@, calcLength)]
                     ELSE /\ vpc' = "height"
                          /\ chk' = [chk EXCEPT !.calcLength = NoneVal]
            ELSE /\ vpc' = "height"
                 /\ chk' = [chk EXCEPT !.checkData5 = TRUE, !.calcLength = 1]
       ELSE /\ vpc' = "height"
            /\ chk' = [chk EXCEPT !.calcLength = 0]
    /\ UNCHANGED <<raw, invoked>>
    /\ UNCHANGED runVars

WindCheckHeight ==
    /\ vpc = "height"
    /\ chk' = [chk EXCEPT !.checkData4 =
                  \A k \in 1 .. Len(raw.heightAboveGround_) : raw.heightAboveGround_[k] >= 0]
    /\ vpc' = "terrain"
    /\ UNCHANGED <<raw, invoked>>
    /\ UNCHANGED runVars

WindCheckTerrain ==
    /\ vpc = "terrain"
    /\ chk' = [chk EXCEPT !.checkData3 = raw.terrainType \in 0 .. 3]
    /\ vpc' = "epwTerrain"
    /\ UNCHANGED <<raw, invoked>>
    /\ UNCHANGED runVars

WindCheckEpwTerrain ==
    /\ vpc = "epwTerrain"
    /\ chk' = IF raw.epwTerrain_ # NoneVal
              THEN IF raw.epwTerrain_ <= 3 /\ raw.epwTerrain_ >= 0
                   THEN [chk EXCEPT !.checkData6 = TRUE, !.epwTerrain = raw.epwTerrain_]
                   ELSE [chk EXCEPT !.checkData6 = FALSE, !.epwTerrain = NoneVal]
              ELSE [chk EXCEPT !.checkData6 = TRUE, !.epwTerrain = 2]
    /\ vpc' = "flags"
    /\ UNCHANGED <<raw, invoked>>
    /\ UNCHANGED runVars

WindReturnCheckData ==
    /\ vpc = "flags"
    /\ chk' = [chk EXCEPT !.checkData =
                  /\ chk.checkData1 /\ chk.checkData2 /\ chk.checkData3
                  /\ chk.checkData4 /\ chk.checkData5 /\ chk.checkData6]
    /\ vpc' = "returned"
    /\ UNCHANGED <<raw, invoked>>
    /\ UNCHANGED runVars

\* "Run the function."
WindRun ==
    /\ vpc = "returned"
    /\ invoked' = IF chk.checkData THEN "main" ELSE "none"
    /\ vpc' = "end"
    /\ UNCHANGED <<raw, chk>>
    /\ UNCHANGED runVars

WindNext ==
    \/ WindCheckSpeed
    \/ WindCheckDirection
    \/ WindCheckLengths
    \/ WindCheckHeight
    \/ WindCheckTerrain
    \/ WindCheckEpwTerrain
    \/ WindReturnCheckData
    \/ WindRun

WindSpec == WindInit /\ [][WindNext]_vars

\* checkTheInputs of the wind speed calculator has returned
WindReturned == vpc \in {"returned", "end"}

\* the numbers of an input list
WindHasNegative(list) ==
    \E k \in 1 .. Len(list.items) : list.items[k].num /\ list.items[k].val < 0

(* C21: in the wind speed calculator, when validation succeeds windSpeed and *)
(* windDir have the same length (lists with several values agree in length,  *)
(* a single value is duplicated), and any negative wind speed or direction   *)
(* makes validation fail.                                                    *)
C21_WindListsAgree ==
    WindReturned =>
        /\ chk.checkData => Len(chk.windSpeed) = Len(chk.windDir)
        /\ (WindHasNegative(raw.windSpeed_tenMeters) \/ WindHasNegative(raw.windDirection_))
               => ~chk.checkData

\* C21 for plain lists, without the header of EPW data
C21_PlainLists ==
    (WindReturned /\ ~raw.windSpeed_tenMeters.epw /\ ~raw.windDirection_.epw) =>
        /\ chk.checkData => Len(chk.windSpeed) = Len(chk.windDir)
        /\ (WindHasNegative(raw.windSpeed_tenMeters) \/ WindHasNegative(raw.windDirection_))
               => ~chk.checkData

\* EPW wind speeds with a negative value have passed the validation
C21_NegativeEpwAccepted ==
    /\ WindReturned
    /\ chk.checkData
    /\ raw.windSpeed_tenMeters = WindEpw(<<WindNum(0), WindNum(-1)>>)
    /\ chk.windSpeed = <<0, -1>>

---------------------------------------------------------------------------
(* The sun-up test, the shared inputs and the preparation *)

\* the sun is up at the index, at the one before or at the one after, the array
\* taken as a ring
SunUpAround(i) == ~NightAround(i)

(* C22: in main the flux model runs for index i of the period if and only if *)
(* the sun is above the horizon at i, at the previous index or at the next   *)
(* index, the previous of the first being the last and the next of the last  *)
(* being the first.                                                          *)
C22_SunUpTestWrapsBothEnds ==
    (Finished /\ invoked = "main") =>
        \A i \in Hours : main_sunUp(i - 1) <=> SunUpAround(i)

\* what the code tests: the previous index wraps, the next of the last is the last
C22_WrapsAtStartOnly ==
    (Finished /\ invoked = "main") =>
        \A i \in Hours :
            main_sunUp(i - 1) <=>
                \/ altitudes[i] > 0
                \/ altitudes[PrevHour(i)] > 0
                \/ (i < NHours /\ altitudes[i + 1] > 0)

\* what every hour reads: the arguments of the run (sky matrix, context, azimuths,
\* radiation series), the period's baseline, altitudes and transmissivities, and
\* the table built in the preparation
sharedInputs == <<inp, radTemp, altitudes, finalWinTransmiss, intDict, skyViewFac>>

\* list is as before, or has one more entry at its end
GrownByAppend(before, after) ==
    /\ Len(after) \in {Len(before), Len(before) + 1}
    /\ SubSeq(after, 1, Len(before)) = before

(* C23: from the start of the dispatch to the end of the run no step changes *)
(* what the hours read (altitudes, baseline MRT, window transmissivities,    *)
(* intersection table, sky matrix, context, sky view factor), and a step of  *)
(* the dispatch only appends to the result lists and to hourOrder.           *)
C23_WorkersOnlyAppend ==
    [][Dispatching =>
          /\ UNCHANGED sharedInputs
          /\ Dispatching' =>
                 /\ GrownByAppend(ERF, ERF')
                 /\ GrownByAppend(MRTDelta, MRTDelta')
                 /\ GrownByAppend(solarAdjustedMRT, solarAdjustedMRT')
                 /\ GrownByAppend(hourOrder, hourOrder')]_vars

\* two workers of a parallel run are between their appends
C23_Witness ==
    /\ Dispatching
    /\ inp.parallel
    /\ Len(ERF) >= 1
    /\ \A t \in Threads : thr[t].idx >= 0
    /\ Len(hourOrder) < Len(ERF)

\* the table of the run is there, whole: the intersection matrix over every
\* sample point and patch in main, the sky view factor in mainSimple
TableComplete ==
    /\ invoked = "main" => intDict = BuildIntersectionMtx(inp.context.blocked)
    /\ invoked = "mainSimple" => skyViewFac = SkyViewFactor

\* some hour has been taken up
HourStarted ==
    \/ seqCount > 0
    \/ nextIdx > 0
    \/ ERF # <<>> \/ MRTDelta # <<>> \/ solarAdjustedMRT # <<>> \/ hourOrder # <<>>

(* C24: in every run the intersection matrix (main) or the sky view factor   *)
(* (mainSimple) is built once, in the preparation: it is complete before the *)
(* first hour is taken up, no hour is taken up while it is built, and no     *)
(* later step builds it again.                                               *)
C24_TableBuiltOnceBeforeDispatch ==
    /\ [](HourStarted => (Prepared /\ TableComplete))
    /\ []((Dispatching \/ Finished) => TableComplete)
    /\ [][(intDict' # intDict \/ skyViewFac' # skyViewFac)
             => (pc = "start" /\ ~HourStarted /\ Dispatching')]_vars
    /\ [][Prepared => UNCHANGED <<intDict, skyViewFac>>]_vars

\* a run of main with context has gone through several hours on its table
C24_Witness ==
    /\ Finished
    /\ invoked = "main"
    /\ inp.context.present
    /\ inp.context.blocked # {}
    /\ NHours >= 2
    /\ TableComplete

---------------------------------------------------------------------------
(* The series after validation *)

\* the series is one value for every hour of the year
YearLong(series) == Len(series) = YearHours

(* C25: _meanRadTemperature passes its check only if every item is a number  *)
(* and there are exactly 8760 items or exactly one; one value is broadcast   *)
(* to the whole year; after a successful check radTemp has 8760 entries.     *)
C25_BaselineSeriesValidated ==
    chk.checkData1 =>
        LET m == raw.meanRadTemperature
        IN  /\ \A k \in 1 .. Len(m.items) : IsNumber(m.items[k])
            /\ Len(m.items) \in {1, YearHours}
            /\ YearLong(chk.radTemp)
            /\ Len(m.items) = 1 => chk.radTemp = [h \in Year |-> m.items[1]]
            /\ Len(m.items) = YearHours => chk.radTemp = m.items

\* the lists the check does treat as claimed: a whole year of numbers, one number
C25_YearOrOneNumber ==
    LET m == raw.meanRadTemperature
    IN  (vpc \notin {"release", "mrt"} /\ raw.release = "ok" /\ ~m.epw
           /\ Len(m.items) \in {1, YearHours}
           /\ \A k \in 1 .. Len(m.items) : IsNumber(m.items[k])) =>
            /\ chk.checkData1
            /\ YearLong(chk.radTemp)

\* a list of more than a year of numbers has passed the check
C25_TooLongAccepted ==
    /\ chk.checkData1
    /\ raw.meanRadTemperature = MrtList(Append(RadTempSeries, R(5)))
    /\ Len(chk.radTemp) = YearHours + 1

\* a list with an item that is not a number has passed the check
C25_NonNumericAccepted ==
    /\ chk.checkData1
    /\ raw.meanRadTemperature = MrtList(<<NaV, R(5)>>)
    /\ chk.radTemp = [h \in Year |-> R(5)]

\* checkTheInputs is past its check of windowTransmissivity_
WindowCheckDone == vpc \in {"period", "location", "return"} \/ Returned

\* a number from 0 to 1, the ends included
Between01(x) == IsNumber(x) /\ ~RLt(x, RZero) /\ ~RLt(ROne, x)

(* C26: after a successful check the window transmissivity series has 8760   *)
(* entries, each in [0,1]: 1 for every hour when the input is absent, the    *)
(* single value for every hour, or the 8760 values hour by hour; a list of   *)
(* another length, or a value below 0 or above 1, fails the check; 0 and 1   *)
(* are accepted.                                                             *)
C26_WindowTransmissivityValidated ==
    WindowCheckDone =>
        LET w == raw.windowTransmissivity_
            rightLength == Len(w) \in {0, 1, YearHours}
            allBetween == \A k \in 1 .. Len(w) : Between01(w[k])
        IN  /\ chk.checkData6 <=> (rightLength /\ allBetween)
            /\ chk.checkData6 =>
                   /\ YearLong(chk.winTrans)
                   /\ \A h \in Year : Between01(chk.winTrans[h])
                   /\ w = <<>> => chk.winTrans = [h \in Year |-> ROne]
                   /\ Len(w) = 1 => chk.winTrans = [h \in Year |-> w[1]]
                   /\ Len(w) = YearHours => chk.winTrans = w

\* an hourly list with the values 0 and 1 in it has passed the check
C26_Witness ==
    /\ WindowCheckDone
    /\ chk.checkData6
    /\ raw.windowTransmissivity_ = WinTransHourly
    /\ \E h \in Year : chk.winTrans[h] = RZero
    /\ \E h \in Year : chk.winTrans[h] = ROne

\* a single value above 1 has failed the check
C26_WitnessRejected ==
    /\ WindowCheckDone
    /\ ~chk.checkData6
    /\ raw.windowTransmissivity_ = <<<<3, 2>>>>

---------------------------------------------------------------------------
(* The hour's formulas *)

\* the flux of an hour over a body of the given area: the body sum and the
\* ground-reflected term, both through the window, over the area
HighResFlux(count, area) ==
    LET bodySum == totalPersonBeamDiffRad0(count)
        groundReflected == RMul(RMul(RMul(Half, groundRad0(count)), fracEff), inp.groundR)
        tau == finalWinTransmiss[count + 1]
    IN  RDiv(RAdd(RMul(bodySum, tau), RMul(groundReflected, tau)), area)

\* the hour's ERF over the sum of the areas of the body's sample points; the
\* ERF list holds it in thousandths
HighResERF(count) ==
    RDiv(RMul(HighResFlux(count, RSum(personMeshAreas)), inp.cloA), AbsorbRef)

(* C27: in main, for every hour that is not short-circuited, the hour's ERF  *)
(* is flux x cloA / 0.95, the flux being the body sum (point radiation x     *)
(* point area, the ground point left out) plus 0.5 x groundRad x fracEff x   *)
(* groundR, both scaled by the hour's window transmissivity, divided by the  *)
(* sum of the areas of the body's sample points, for every posture of main.  *)
C27_HighResFormula ==
    (Finished /\ invoked = "main") =>
        \A i \in Hours :
            main_sunUp(i - 1) => RMul(R(1000), ERF[i]) = HighResERF(i - 1)

\* C27 for the sequential loop with the full mannequin (postures 0, 1, 2)
C27_FullMannequinSequential ==
    (Finished /\ invoked = "main" /\ ~inp.parallel /\ inp.method = 0) =>
        \A i \in Hours :
            main_sunUp(i - 1) => RMul(R(1000), ERF[i]) = HighResERF(i - 1)

\* C27 for the sequential loop with the low-resolution mannequin (postures 3, 4, 5)
C27_LowResMannequinSequential ==
    (Finished /\ invoked = "main" /\ ~inp.parallel /\ inp.method = 1) =>
        \A i \in Hours :
            main_sunUp(i - 1) => RMul(R(1000), ERF[i]) = HighResERF(i - 1)

---------------------------------------------------------------------------
(* C28: in mainSimple, whatever the solar azimuth, the north angle and the   *)
(* rotation angle of the mannequin are (positive, negative, larger than 360  *)
(* degrees), at every hour with the sun up the folding of the azimuth ends   *)
(* and the projected area factor is looked up with an integer azimuth in     *)
(* [0, 180] and an integer altitude in [0, 90]; for the lying postures the   *)
(* altitude passed is 90 minus the folded altitude, in [0, 90] as well.      *)
LyingPosture == inp.bodyPosture_ \notin {0, 1, 3, 4, NoneVal}
SimpleDispatched == invoked = "mainSimple" /\ pc \in {"dispatch", "done"}

C28_LookupAnglesInRange ==
    SimpleDispatched =>
        \A i \in Hours :
            simple_looksUpProjArea(i - 1) =>
                /\ azFinal(i - 1) \in 0 .. 180
                /\ altFinal(i - 1) \in 0 .. 90
                /\ LyingPosture => (90 - altFinal(i - 1)) \in 0 .. 90

\* a lying mannequin whose azimuth, turned by the angles, passes 360 degrees
C28_Witness ==
    /\ SimpleDispatched /\ Finished /\ LyingPosture
    /\ \E i \in Hours :
           /\ simple_looksUpProjArea(i - 1)
           /\ azInit(i - 1) > 360
           /\ altFinal(i - 1) = 90

\* an azimuth that the angles turn below zero
C28_WitnessNegative ==
    /\ SimpleDispatched /\ Finished
    /\ \E i \in Hours : simple_looksUpProjArea(i - 1) /\ azInit(i - 1) < -180

---------------------------------------------------------------------------
(* getCumulativeSky over a calendar of CalDays days of DayHours hours.  A     *)
(* running period is (start day, start hour) .. (end day, end hour); the     *)
(* sky holds, for patch 0 (the ground) and the patches above it, one         *)
(* (diffuse, direct) pair per hour of the year, keyed by the hour 1 .. n.    *)

CalDays == 2        \* days of the calendar (365 in the program)
DayHours == 2       \* hours of a day (24 in the program)
CalHours == CalDays * DayHours

\* lb_preparation.date2Hour: the hour of the year of an hour of a day
date2Hour(day, hour) == (day - 1) * DayHours + hour

RunningPeriods ==
    [stDay : 1 .. CalDays, stHour : 1 .. DayHours,
     endDay : 1 .. CalDays, endHour : 1 .. DayHours]

RECURSIVE Pow3(_)
Pow3(n) == IF n = 0 THEN 1 ELSE 3 * Pow3(n - 1)

\* skies: a different value at every hour, the same value at every hour
SkyDistinct ==
    [p \in 0 .. NPatches |-> [h \in 1 .. CalHours |-> <<(p + 1) * Pow3(h - 1), Pow3(h - 1)>>]]
SkyUniform == [p \in 0 .. NPatches |-> [h \in 1 .. CalHours |-> <<1000, 2000>>]]
SkyLastHours ==
    [p \in 0 .. NPatches |-> [h \in 1 .. CalHours |-> IF h > DayHours THEN <<p, 1>> ELSE <<0, 0>>]]
CumSkies == {SkyDistinct, SkyUniform, SkyLastHours}

\* range(n)
PyRange(n) == [k \in 1 .. n |-> k - 1]

\* list[a:b] and list[a:] for 0 <= a
PySlice(list, a, b) == SubSeq(list, a + 1, IF b < Len(list) THEN b ELSE Len(list))
PySliceFrom(list, a) == SubSeq(list, a + 1, Len(list))

RECURSIVE SelectWindow(_, _, _, _, _)
\* the first n items of a slice that pass
\* stHour-1 <= (i + shift) % 24 <= endHour-1, i counting from 0
SelectWindow(items, n, shift, stHour, endHour) ==
    IF n = 0 THEN <<>>
    ELSE LET rest == SelectWindow(items, n - 1, shift, stHour, endHour)
             h == ((n - 1) + shift) % DayHours
         IN  IF stHour - 1 <= h /\ h <= endHour - 1
             THEN Append(rest, items[n])
             ELSE rest

selectHourlyData(dataList, p) ==
    LET stAnnualHour == date2Hour(p.stDay, p.stHour)
        endAnnualHour == date2Hour(p.endDay, p.endHour)
        whole == PySlice(dataList, stAnnualHour - 1, endAnnualHour + 1)
        tail == PySliceFrom(dataList, stAnnualHour - 1)
        head == PySlice(dataList, 0, endAnnualHour + 1)
    IN  IF stAnnualHour < endAnnualHour
        THEN SelectWindow(whole, Len(whole), p.stHour - 1, p.stHour, p.endHour)
        ELSE SelectWindow(tail, Len(tail), p.stHour - 1, p.stHour, p.endHour)
                 \o SelectWindow(head, Len(head), 0, p.stHour, p.endHour)

RECURSIVE CumulativeUpTo(_, _, _)
\* the sums of a patch over the first n entries of HOYS; a key the patch
\* does not hold raises, which ends the loop with the sums so far
CumulativeUpTo(series, hoys, n) ==
    IF n = 0 THEN [dif |-> 0, dir |-> 0, raised |-> FALSE]
    ELSE LET before == CumulativeUpTo(series, hoys, n - 1)
         IN  IF before.raised THEN before
             ELSE IF (hoys[n] + 1) \notin DOMAIN series
                  THEN [before EXCEPT !.raised = TRUE]
                  ELSE [dif |-> before.dif + series[hoys[n] + 1][1],
                        dir |-> before.dir + series[hoys[n] + 1][2],
                        raised |-> FALSE]

CumInit ==
    /\ raw \in [runningPeriod : RunningPeriods, d : CumSkies]
    /\ chk = [HOYS |-> <<>>, hourlyMtx |-> <<>>]
    /\ vpc = "selectHourlyData"
    /\ invoked = "none"
    /\ inp = NoArgs
    /\ pc = "idle"
    /\ radTemp = <<>>
    /\ altitudes = <<>>
    /\ finalWinTransmiss = <<>>
    /\ skyViewFac = 1
    /\ intDict = <<>>
    /\ ERF = <<>>
    /\ MRTDelta = <<>>
    /\ solarAdjustedMRT = <<>>
    /\ hourOrder = <<>>
    /\ seqCount = 0
    /\ nextIdx = 0
    /\ thr = [t \in Threads |-> Idle]

\* HOYS = selectHourlyData(range(8760), runningPeriod)
CumSelectHours ==
    /\ vpc = "selectHourlyData"
    /\ chk' = [chk EXCEPT !.HOYS = selectHourlyData(PyRange(CalHours), raw.runningPeriod)]
    /\ vpc' = "sum"
    /\ UNCHANGED <<raw, invoked>>
    /\ UNCHANGED runVars

\* the loop over the patches: one [diffuse / 1000, direct / 1000] per patch
\* other than patch 0
CumSumPatches ==
    /\ vpc = "sum"
    /\ chk' = [chk EXCEPT !.hourlyMtx =
                  [p \in 1 .. NPatches |->
                      LET c == CumulativeUpTo(raw.d[p], chk.HOYS, Len(chk.HOYS))
                      IN  <<RNorm(c.dif, 1000), RNorm(c.dir, 1000)>>]]
    /\ vpc' = "returned"
    /\ UNCHANGED <<raw, invoked>>
    /\ UNCHANGED runVars

CumNext == CumSelectHours \/ CumSumPatches

CumSpec == CumInit /\ [][CumNext]_vars

\* the hours of the year of a running period
InDailyWindow(t, p) ==
    LET h == ((t - 1) % DayHours) + 1 IN p.stHour <= h /\ h <= p.endHour
InPeriod(t, p) ==
    LET st == date2Hour(p.stDay, p.stHour)
        end == date2Hour(p.endDay, p.endHour)
    IN  /\ IF st <= end THEN st <= t /\ t <= end ELSE t >= st \/ t <= end
        /\ InDailyWindow(t, p)

RECURSIVE PeriodSumTo(_, _, _, _)
\* the sum of component k of a patch over the period's hours among 1 .. n
PeriodSumTo(series, p, k, n) ==
    IF n = 0 THEN 0
    ELSE PeriodSumTo(series, p, k, n - 1) + (IF InPeriod(n, p) THEN series[n][k] ELSE 0)

PeriodSums(p, patch) ==
    <<RNorm(PeriodSumTo(raw.d[patch], p, 1, CalHours), 1000),
      RNorm(PeriodSumTo(raw.d[patch], p, 2, CalHours), 1000)>>

CumReturned == vpc = "returned" /\ "hourlyMtx" \in DOMAIN chk

(* C29: for a period given as a start/end range getCumulativeSky returns one *)
(* (diffuse sum, direct sum) pair per sky patch other than patch 0, each sum *)
(* taken over exactly the hours of the period: no hour after the end hour,   *)
(* none before the start hour, none outside the daily window from the start  *)
(* hour to the end hour, also when the period wraps over the end of the year.*)
C29_SumsOverThePeriod ==
    CumReturned =>
        /\ Len(chk.hourlyMtx) = NPatches
        /\ \A patch \in 1 .. NPatches :
               chk.hourlyMtx[patch] = PeriodSums(raw.runningPeriod, patch)

\* whole days: the daily window is the whole day
WholeDays(p) == p.stHour = 1 /\ p.endHour = DayHours

\* what holds: one pair per patch; the sums are exact when the period runs
\* forward to the last hour of the year, or over part of each day without
\* wrapping over the end of the year
C29_PartOfDayOrYearEnd ==
    CumReturned =>
        /\ Len(chk.hourlyMtx) = NPatches
        /\ LET p == raw.runningPeriod
               st == date2Hour(p.stDay, p.stHour)
               end == date2Hour(p.endDay, p.endHour)
           IN  (st < end /\ (~WholeDays(p) \/ end = CalHours)) =>
                   \A patch \in 1 .. NPatches :
                       chk.hourlyMtx[patch] = PeriodSums(p, patch)

\* the first day alone, as whole days: the first hour of the second day is
\* summed as well
C29_HourAfterTheEnd ==
    /\ CumReturned
    /\ raw.runningPeriod = [stDay |-> 1, stHour |-> 1, endDay |-> 1, endHour |-> DayHours]
    /\ chk.HOYS = PyRange(DayHours + 1)

---------------------------------------------------------------------------
(* C30: for every kind of analysis period (the full year by default, a range,*)
(* a single hour of the year), in main and in mainSimple, sequential and     *)
(* parallel, the baseline MRT and the window transmissivity applied to the   *)
(* output position i are those of the input series at the hour HOYS[i]:      *)
(* radTemp[HOYS[i]-1] and winTrans[HOYS[i]-1].                               *)

\* the period's copies of the input series hold the values of its hours
SlicedToThePeriod ==
    /\ \A i \in Hours : radTemp[i] = inp.radTemp[HOYS[i]]
    /\ invoked = "main" =>
           /\ Len(finalWinTransmiss) = NHours
           /\ \A i \in Hours : finalWinTransmiss[i] = inp.winTrans[HOYS[i]]

\* position i of the outputs holds the energy of the hour HOYS[i] under its
\* transmissivity, and its MRT is its delta above the baseline of that hour
OutputOfItsHour(i) ==
    /\ ERF[i] = hourResult(i - 1).erf
    /\ RSub(solarAdjustedMRT[i], MRTDelta[i]) = inp.radTemp[HOYS[i]]

C30_SeriesOfTheHourApplied ==
    /\ (Dispatching \/ Finished) => SlicedToThePeriod
    /\ Finished => \A i \in Hours : OutputOfItsHour(i)

\* the copies made before the dispatch are right in both modes
C30_SlicedBeforeDispatch ==
    (Dispatching \/ Finished) => SlicedToThePeriod

\* the sequential loop applies them to the right positions
C30_Sequential ==
    (Finished /\ ~inp.parallel) => \A i \in Hours : OutputOfItsHour(i)

\* a parallel run over two hours of different baselines whose outputs hold
\* the first hour's baseline at the second position
C30_ParallelMisapplied ==
    /\ Finished /\ inp.parallel /\ NHours = 2
    /\ inp.radTemp[HOYS[1]] # inp.radTemp[HOYS[2]]
    /\ solarAdjustedMRT[2] = inp.radTemp[HOYS[1]]

\* a sequential run over a range that does not start the year, with a
\* baseline and a transmissivity that differ between its hours
C30_SequentialRange ==
    /\ Finished /\ ~inp.parallel /\ NHours = 2 /\ HOYS[1] = 2
    /\ inp.radTemp[HOYS[1]] # inp.radTemp[HOYS[2]]
    /\ inp.winTrans[HOYS[1]] # inp.winTrans[HOYS[2]]
    /\ SlicedToThePeriod

=============================================================================
